---- MODULE Spec2Model ----
(***************************************************************************)
(* A model of the zenith content plugin: the markdown block scanner        *)
(* (src/content/markdown.ts), the ZenCollection query builder with its     *)
(* enrichment pipeline (src/content/index.ts, enhancers in                 *)
(* src/unnamed/part_000) and the ordering / navigation index with its URL  *)
(* helpers (src/content/hooks/useZenOrder.ts).                             *)
(*                                                                         *)
(* Text is a sequence of one-character strings, so that trimming,          *)
(* splitting and pattern matching are computed character by character.     *)
(* An optional value (null / undefined in the source) is a sequence of     *)
(* length at most one: None is <<>>, Some(v) is <<v>>.                     *)
(***************************************************************************)
EXTENDS Integers, Sequences, FiniteSets, TLC

VARIABLES
    \* ---- markdown compiler (compileMarkdown) ----
    markdown,        \* the input text
    lines,           \* markdown.split('\n')
    mdI,             \* the line cursor i (1-based here, 0-based in the source)
    mdNodes,         \* the nodes pushed so far
    mdPc,            \* "scan" while in the while loop, "done" after return
    mdHtml,          \* None, or Some(the HTML text made from the nodes)
    inlineText,      \* the argument of a parseInline call
    inlineResult,    \* None, or Some(what that call returned)
    \* ---- ZenCollection builder ----
    collectionItems, \* the builder's snapshot
    filters,         \* predicates added by where()
    sortField,       \* None or Some(field)
    sortOrder,       \* "asc" or "desc"
    limitCount,      \* None or Some(n)
    selectedFields,  \* None or Some(sequence of field names)
    enhancers,       \* the steps added by enhanceWith()
    calls,           \* the terminal calls made so far, in invocation order
    nChain,          \* history: the number of chaining calls made so far
    sortArg,         \* history: the order argument of the last sortBy call (None: omitted)
    chainedLimit,    \* history: limitCount as the last chaining call left it
    chainLog,        \* history: the chaining calls made on the builder, in call order
    sourceItems,     \* the caller's array that was passed to the constructor
    nEdits,          \* history: the number of writes the caller made to its array
    \* ---- ordering index (createZenOrder) ----
    rawSections,     \* the argument of createZenOrder
    sections,        \* the sorted section list of the instance
    selectedSection, \* None or Some(section)
    selectedDoc,     \* None or Some(document)
    navRet,          \* the last query made on the index and what it returned
    walkPc,          \* a caller's walk over the index: "idle", "walking" or "done"
    walkDoc,         \* None, or Some(the document the walk is at)
    walkVisited,     \* history: the documents the walk has been at, in order
    \* ---- URL helpers ----
    urlArgs,         \* the arguments of the last buildDocUrl call
    urlPath,         \* the path last built or supplied
    urlParsed        \* what parseDocUrl returned for urlPath

mdVars == <<markdown, lines, mdI, mdNodes, mdPc, mdHtml, inlineText, inlineResult>>
qVars == <<collectionItems, filters, sortField, sortOrder, limitCount,
           selectedFields, enhancers, calls, nChain, sortArg, chainedLimit,
           chainLog, sourceItems, nEdits>>
navVars == <<rawSections, sections, selectedSection, selectedDoc, navRet,
            walkPc, walkDoc, walkVisited>>
urlVars == <<urlArgs, urlPath, urlParsed>>
vars == <<mdVars, qVars, navVars, urlVars>>

(***************************************************************************)
(* Generic helpers                                                         *)
(***************************************************************************)
None == <<>>
Some(v) == <<v>>
IsSome(o) == Len(o) > 0
Val(o) == o[1]

Range(s) == {s[k] : k \in 1..Len(s)}

\* All sequences over S of length lo..hi
SeqsOf(S, lo, hi) == UNION {[1..k -> S] : k \in lo..hi}

\* Sequences over S without repetition, of length lo..hi
DistinctSeqsOf(S, lo, hi) ==
    {s \in SeqsOf(S, lo, hi) : \A a, b \in 1..Len(s) : a # b => s[a] # s[b]}

RECURSIVE Flatten(_)
Flatten(ss) == IF ss = <<>> THEN <<>> ELSE Head(ss) \o Flatten(Tail(ss))

Min(a, b) == IF a < b THEN a ELSE b

\* Array.prototype.slice(from) on a 0-based index: the characters from+1..Len
SliceFrom(s, from) == SubSeq(s, from + 1, Len(s))

(***************************************************************************)
(* Text helpers (String.prototype.trim / startsWith / split / join)        *)
(***************************************************************************)
WhiteSpace == {" ", "\t"}
Digits == {"0", "1", "2", "3", "4", "5", "6", "7", "8", "9"}

\* the number of leading characters of s that lie in S
RECURSIVE LeadingRun(_, _)
LeadingRun(s, S) ==
    IF s # <<>> /\ Head(s) \in S THEN 1 + LeadingRun(Tail(s), S) ELSE 0

RECURSIVE TrailingRun(_, _)
TrailingRun(s, S) ==
    IF s # <<>> /\ s[Len(s)] \in S
    THEN 1 + TrailingRun(SubSeq(s, 1, Len(s) - 1), S) ELSE 0

TrimStart(s) == SliceFrom(s, LeadingRun(s, WhiteSpace))
Trim(s) == LET t == TrimStart(s) IN SubSeq(t, 1, Len(t) - TrailingRun(t, WhiteSpace))

StartsWith(s, p) == Len(s) >= Len(p) /\ SubSeq(s, 1, Len(p)) = p

\* text.split(sep) for a one-character separator: the pieces between
\* separators, empty pieces included; never an empty result
RECURSIVE SplitChar(_, _)
SplitChar(s, sep) ==
    LET k == LeadingRun(s, {c \in Range(s) : c # sep})
    IN IF k = Len(s) THEN <<s>>
       ELSE <<SubSeq(s, 1, k)>> \o SplitChar(SliceFrom(s, k + 1), sep)

\* pieces.join(sep)
RECURSIVE Join(_, _)
Join(pieces, sep) ==
    IF pieces = <<>> THEN <<>>
    ELSE IF Len(pieces) = 1 THEN pieces[1]
    ELSE pieces[1] \o sep \o Join(Tail(pieces), sep)

Uppers == <<"A", "B", "C", "D", "E", "F", "G", "H", "I", "J", "K", "L", "M",
            "N", "O", "P", "Q", "R", "S", "T", "U", "V", "W", "X", "Y", "Z">>
Lowers == <<"a", "b", "c", "d", "e", "f", "g", "h", "i", "j", "k", "l", "m",
            "n", "o", "p", "q", "r", "s", "t", "u", "v", "w", "x", "y", "z">>
IsUpper(c) == \E k \in 1..Len(Uppers) : Uppers[k] = c
\* String.prototype.toLowerCase, one character
Lower(c) == IF IsUpper(c) THEN Lowers[CHOOSE k \in 1..Len(Uppers) : Uppers[k] = c] ELSE c
IsLower(c) == \E k \in 1..Len(Lowers) : Lowers[k] = c
\* String.prototype.toUpperCase, one character
Upper(c) == IF IsLower(c) THEN Uppers[CHOOSE k \in 1..Len(Lowers) : Lowers[k] = c] ELSE c

(***************************************************************************)
(* Markdown compiler: src/content/markdown.ts                              *)
(***************************************************************************)
\* h(tag, props, children); props is a sequence of <<name, value>> pairs
h(tag, props, children) == [tag |-> tag, props |-> props, children |-> children]

\* a literal text child of a node
Leaf(text) == [text |-> text]

\* the first position p >= from at which pat occurs in s, or 0
RECURSIVE FindFrom(_, _, _)
FindFrom(s, pat, from) ==
    IF from + Len(pat) - 1 > Len(s) THEN 0
    ELSE IF SubSeq(s, from, from + Len(pat) - 1) = pat THEN from
    ELSE FindFrom(s, pat, from + 1)

\* the first position p >= from with s[p] = c and s[p+1] # c (or p the end), or 0
RECURSIVE FindSingle(_, _, _)
FindSingle(s, c, from) ==
    IF from > Len(s) THEN 0
    ELSE IF s[from] = c /\ (from = Len(s) \/ s[from + 1] # c) THEN from
    ELSE FindSingle(s, c, from + 1)

\* the first position p >= from with s[p] \in S, or 0
RECURSIVE FindIn(_, _, _)
FindIn(s, S, from) ==
    IF from > Len(s) THEN 0
    ELSE IF s[from] \in S THEN from
    ELSE FindIn(s, S, from + 1)

\* the backtick character (the tools' lexer does not accept it inside a string)
Tick == "tick"

InlineSpecial == {"*", "_", Tick, "["}

\* a bold pattern that takes as many characters as possible: the position of
\* the last closing delimiter, or 0
BoldCloseGreedy(s) ==
    IF Len(s) >= 2 /\ s[1] \in {"*", "_"} /\ s[2] = s[1]
          /\ \E q \in 4..(Len(s) - 1) : SubSeq(s, q, q + 1) = <<s[1], s[1]>>
    THEN CHOOSE q \in 4..(Len(s) - 1) :
             /\ SubSeq(s, q, q + 1) = <<s[1], s[1]>>
             /\ \A r \in (q + 1)..(Len(s) - 1) : SubSeq(s, r, r + 1) # <<s[1], s[1]>>
    ELSE 0

\* bold pattern: a doubled star or underscore, at least one character (as few
\* as possible), the same doubled delimiter: the position of the closing
\* delimiter, or 0
BoldClose(s) ==
    IF Len(s) >= 2 /\ s[1] \in {"*", "_"} /\ s[2] = s[1]
    THEN FindFrom(s, <<s[1], s[1]>>, 4) ELSE 0

\* italic pattern: a single star or underscore not followed by itself, at least
\* one character (as few as possible), the same delimiter not followed by
\* itself: the position of the closing delimiter, or 0
ItalicClose(s) ==
    IF Len(s) >= 2 /\ s[1] \in {"*", "_"} /\ s[2] # s[1]
    THEN FindSingle(s, s[1], 3) ELSE 0

\* inline code pattern: a backtick, one or more non-backtick characters, a
\* backtick: the position of the closing backtick, or 0
CodeClose(s) ==
    IF Len(s) >= 1 /\ s[1] = Tick
    THEN LET q == FindIn(s, {Tick}, 2) IN IF q >= 3 THEN q ELSE 0
    ELSE 0

\* link pattern: bracketed text followed by a parenthesised url, both non-empty:
\* the positions of the closing bracket and the closing parenthesis, or 0 and 0
LinkClose(s) ==
    IF Len(s) >= 1 /\ s[1] = "["
    THEN LET r == FindIn(s, {"]"}, 2)
         IN IF r >= 3 /\ r + 1 <= Len(s) /\ s[r + 1] = "("
            THEN LET q == FindIn(s, {")"}, r + 2)
                 IN IF q >= r + 3 THEN <<r, q>> ELSE <<0, 0>>
            ELSE <<0, 0>>
    ELSE <<0, 0>>

RECURSIVE parseInline(_)
parseInline(remaining) ==
    IF Len(remaining) = 0 THEN <<>>
    ELSE IF BoldClose(remaining) > 0 THEN
        LET q == BoldClose(remaining)
        IN <<h("strong", <<>>, <<Leaf(SubSeq(remaining, 3, q - 1))>>)>>
           \o parseInline(SliceFrom(remaining, q + 1))
    ELSE IF ItalicClose(remaining) > 0 THEN
        LET q == ItalicClose(remaining)
        IN <<h("em", <<>>, <<Leaf(SubSeq(remaining, 2, q - 1))>>)>>
           \o parseInline(SliceFrom(remaining, q))
    ELSE IF CodeClose(remaining) > 0 THEN
        LET q == CodeClose(remaining)
        IN <<h("code", <<>>, <<Leaf(SubSeq(remaining, 2, q - 1))>>)>>
           \o parseInline(SliceFrom(remaining, q))
    ELSE IF LinkClose(remaining)[1] > 0 THEN
        LET r == LinkClose(remaining)[1]
            q == LinkClose(remaining)[2]
        IN <<h("a", <<<<"href", SubSeq(remaining, r + 2, q - 1)>>>>,
               <<Leaf(SubSeq(remaining, 2, r - 1))>>)>>
           \o parseInline(SliceFrom(remaining, q))
    ELSE
        LET nextSpecial == FindIn(remaining, InlineSpecial, 2)
        IN IF nextSpecial = 0 THEN <<Leaf(remaining)>>
           ELSE <<Leaf(SubSeq(remaining, 1, nextSpecial - 1))>>
                \o parseInline(SliceFrom(remaining, nextSpecial - 1))

\* the texts parseInline is called with: every text of up to MaxInline
\* characters made of the two delimiters and a letter, and the text
\* **a*b*c**
MaxInline == 9
InlineChars == {"*", "_", "a"}
InlineInputs ==
    SeqsOf(InlineChars, 0, MaxInline)
        \cup { <<"*", "*", "a", "*", "b", "*", "c", "*", "*">> }

\* a caller holds a text
InlineInit ==
    /\ markdown = <<>>
    /\ lines = <<>>
    /\ mdI = 1
    /\ mdNodes = <<>>
    /\ mdPc = "idle"
    /\ mdHtml = None
    /\ inlineText \in InlineInputs
    /\ inlineResult = None

\* the call parseInline(text) and its return
CallParseInline ==
    /\ inlineResult = None
    /\ inlineResult' = Some(parseInline(inlineText))
    /\ UNCHANGED <<markdown, lines, mdI, mdNodes, mdPc, mdHtml, inlineText>>
    /\ UNCHANGED <<qVars, navVars, urlVars>>

Fence == <<Tick, Tick, Tick>>

IsFence(trimmed) == StartsWith(trimmed, Fence)

\* heading pattern on a trimmed line: one to six hashes, white space, text
HeadingLevel(trimmed) == LeadingRun(trimmed, {"#"})
HeadingMatch(trimmed) ==
    LET k == HeadingLevel(trimmed)
        w == LeadingRun(SliceFrom(trimmed, k), WhiteSpace)
    IN k >= 1 /\ k <= 6 /\ w >= 1 /\ k + w < Len(trimmed)
HeadingText(trimmed) ==
    LET k == HeadingLevel(trimmed)
    IN SliceFrom(trimmed, k + LeadingRun(SliceFrom(trimmed, k), WhiteSpace))

\* the tag h1..h6 of a heading of the given level
HeadingTag(level) ==
    CASE level = 1 -> "h1" [] level = 2 -> "h2" [] level = 3 -> "h3"
      [] level = 4 -> "h4" [] level = 5 -> "h5" [] level = 6 -> "h6"

\* rule pattern: three or more of the same character among - * _
IsRule(trimmed) ==
    /\ Len(trimmed) >= 3
    /\ trimmed[1] \in {"-", "*", "_"}
    /\ \A k \in 1..Len(trimmed) : trimmed[k] = trimmed[1]

IsQuote(trimmed) == StartsWith(trimmed, <<">">>)

\* bullet pattern (- or * then white space) and the text left once the marker
\* is removed
IsBullet(trimmed) ==
    Len(trimmed) >= 2 /\ trimmed[1] \in {"-", "*"} /\ trimmed[2] \in WhiteSpace
BulletText(trimmed) == TrimStart(SliceFrom(trimmed, 1))

\* numbered pattern (digits, a dot, white space) and the text left once the
\* marker is removed
IsNumbered(trimmed) ==
    LET d == LeadingRun(trimmed, Digits)
    IN d >= 1 /\ Len(trimmed) >= d + 2 /\ trimmed[d + 1] = "."
       /\ trimmed[d + 2] \in WhiteSpace
NumberedText(trimmed) == TrimStart(SliceFrom(trimmed, LeadingRun(trimmed, Digits) + 1))

\* the condition of the paragraph loop on one line
IsParagraphLine(line) ==
    LET t == Trim(line)
    IN /\ t # <<>>
       /\ ~StartsWith(t, <<"#">>)
       /\ ~IsFence(t)
       /\ ~IsQuote(t)
       /\ ~IsBullet(t)
       /\ ~IsNumbered(t)
       /\ ~IsRule(t)

NotFenceLine(line) == ~IsFence(Trim(line))
QuoteLine(line) == IsQuote(Trim(line))
BulletLine(line) == IsBullet(Trim(line))
NumberedLine(line) == IsNumbered(Trim(line))

\* the condition of one of the inner while loops on a line
LoopTest(loop, line) ==
    CASE loop = "fence" -> NotFenceLine(line)
      [] loop = "quote" -> QuoteLine(line)
      [] loop = "bullet" -> BulletLine(line)
      [] loop = "numbered" -> NumberedLine(line)
      [] loop = "paragraph" -> IsParagraphLine(line)

\* the number of consecutive lines from position i on that pass the loop's test
RECURSIVE RunOfLines(_, _, _)
RunOfLines(ls, i, loop) ==
    IF i <= Len(ls) /\ LoopTest(loop, ls[i]) THEN 1 + RunOfLines(ls, i + 1, loop) ELSE 0

\* One pass of the while loop of compileMarkdown with the cursor on line i
\* (i <= Len(ls)): the cursor and the node list after the pass.
ScanPass(ls, i, nodes) ==
    LET trimmed == Trim(ls[i])
    IN IF trimmed = <<>> THEN [i |-> i + 1, nodes |-> nodes]
       ELSE IF IsFence(trimmed) THEN
           LET rest == Trim(SliceFrom(trimmed, 3))
               n == RunOfLines(ls, i + 1, "fence")
               codeLines == SubSeq(ls, i + 1, i + n)
               props == IF rest = <<>> THEN <<>>
                        ELSE <<<<"class", <<"language-">> \o rest>>>>
               codeNode == h("code", props, <<Leaf(Join(codeLines, <<"\n">>))>>)
           IN [i |-> i + 1 + n + 1, nodes |-> Append(nodes, h("pre", <<>>, <<codeNode>>))]
       ELSE IF HeadingMatch(trimmed) THEN
           [i |-> i + 1,
            nodes |-> Append(nodes, h(HeadingTag(HeadingLevel(trimmed)), <<>>,
                                      parseInline(HeadingText(trimmed))))]
       ELSE IF IsRule(trimmed) THEN
           [i |-> i + 1, nodes |-> Append(nodes, h("hr", <<>>, <<>>))]
       ELSE IF IsQuote(trimmed) THEN
           LET n == RunOfLines(ls, i, "quote")
               quoteLines == [k \in 1..n |-> Trim(SliceFrom(Trim(ls[i + k - 1]), 1))]
           IN [i |-> i + n,
               nodes |-> Append(nodes, h("blockquote", <<>>,
                                         parseInline(Join(quoteLines, <<" ">>))))]
       ELSE IF IsBullet(trimmed) THEN
           LET n == RunOfLines(ls, i, "bullet")
               listItems == [k \in 1..n |->
                   h("li", <<>>, parseInline(BulletText(Trim(ls[i + k - 1]))))]
           IN [i |-> i + n, nodes |-> Append(nodes, h("ul", <<>>, listItems))]
       ELSE IF IsNumbered(trimmed) THEN
           LET n == RunOfLines(ls, i, "numbered")
               listItems == [k \in 1..n |->
                   h("li", <<>>, parseInline(NumberedText(Trim(ls[i + k - 1]))))]
           IN [i |-> i + n, nodes |-> Append(nodes, h("ol", <<>>, listItems))]
       ELSE
           LET n == RunOfLines(ls, i, "paragraph")
               paraLines == [k \in 1..n |-> Trim(ls[i + k - 1])]
           IN [i |-> i + n,
               nodes |-> IF n > 0
                         THEN Append(nodes, h("p", <<>>, parseInline(Join(paraLines, <<" ">>))))
                         ELSE nodes]

(***************************************************************************)
(* compileMarkdown as a process: one action per pass of the while loop     *)
(***************************************************************************)
MaxLines == 3

\* the lines documents are made of
LineSamples ==
    { <<>>,
      <<" ">>,
      <<"#", " ", "T">>,
      <<"#", "t">>,
      <<"#">>,
      <<Tick, Tick, Tick>>,
      <<Tick, Tick, Tick, "j">>,
      <<"a">>,
      <<">", " ", "q">>,
      <<"-", " ", "x">>,
      <<"1", ".", " ", "x">>,
      <<"-", "-", "-">>,
      <<"&", "a", "m", "p", ";">>,
      <<"<", "b", ">", " ", "&">> }

MarkdownInputs ==
    {Join(ls, <<"\n">>) : ls \in SeqsOf(LineSamples, 1, MaxLines)}

MdInit ==
    /\ markdown \in MarkdownInputs
    /\ lines = SplitChar(markdown, "\n")
    /\ mdI = 1
    /\ mdNodes = <<>>
    /\ mdPc = "scan"
    /\ mdHtml = None
    /\ inlineText = <<>>
    /\ inlineResult = None

MdIdle ==
    /\ markdown = <<>>
    /\ lines = <<>>
    /\ mdI = 1
    /\ mdNodes = <<>>
    /\ mdPc = "idle"
    /\ mdHtml = None
    /\ inlineText = <<>>
    /\ inlineResult = None

\* one pass of while (i < lines.length)
BlockScan ==
    /\ mdPc = "scan"
    /\ mdI <= Len(lines)
    /\ LET r == ScanPass(lines, mdI, mdNodes)
       IN /\ mdI' = r.i
          /\ mdNodes' = r.nodes
    /\ UNCHANGED <<markdown, lines, mdPc, mdHtml, inlineText, inlineResult>>
    /\ UNCHANGED <<qVars, navVars, urlVars>>

\* the loop test fails: return nodes
ScanReturn ==
    /\ mdPc = "scan"
    /\ mdI > Len(lines)
    /\ mdPc' = "done"
    /\ UNCHANGED <<markdown, lines, mdI, mdNodes, mdHtml, inlineText, inlineResult>>
    /\ UNCHANGED <<qVars, navVars, urlVars>>

\* text.replace(/c/g, entity): every occurrence of the character c
ReplaceAll(text, c, entity) ==
    Flatten([k \in 1..Len(text) |-> IF text[k] = c THEN entity ELSE <<text[k]>>])

AmpEntity == <<"&", "a", "m", "p", ";">>
LtEntity == <<"&", "l", "t", ";">>
GtEntity == <<"&", "g", "t", ";">>

escapeText(text) ==
    ReplaceAll(ReplaceAll(ReplaceAll(text, "&", AmpEntity), "<", LtEntity), ">", GtEntity)

\* the attributes of a node: the props whose value is not null (a null
\* value is a pair without second element), as name="value" joined by spaces
AttrsOf(props) ==
    LET present == SelectSeq(props, LAMBDA pair : Len(pair) = 2)
    IN Join([k \in 1..Len(present) |->
                <<present[k][1], "=", "\"">> \o present[k][2] \o <<"\"">>], <<" ">>)

\* the HTML text is a sequence of characters in which a tag name and an
\* attribute name stand as one element each
RECURSIVE renderNode(_)
renderNode(node) ==
    IF "text" \in DOMAIN node THEN escapeText(node.text)
    ELSE LET attrs == AttrsOf(node.props)
             childrenHtml == Flatten([k \in 1..Len(node.children) |->
                                         renderNode(node.children[k])])
         IN IF node.tag \in {"hr", "br"}
            THEN IF attrs # <<>> THEN <<"<", node.tag, " ">> \o attrs \o <<" ", "/", ">">>
                 ELSE <<"<", node.tag, " ", "/", ">">>
            ELSE IF attrs # <<>>
            THEN <<"<", node.tag, " ">> \o attrs \o <<">">> \o childrenHtml
                     \o <<"<", "/", node.tag, ">">>
            ELSE <<"<", node.tag, ">">> \o childrenHtml \o <<"<", "/", node.tag, ">">>

vnodesToHtml(nodes) ==
    Join([k \in 1..Len(nodes) |-> renderNode(nodes[k])], <<"\n">>)

\* the loader turns the nodes compileMarkdown returned into HTML text
Serialize ==
    /\ mdPc = "done"
    /\ mdPc' = "html"
    /\ mdHtml' = Some(vnodesToHtml(mdNodes))
    /\ UNCHANGED <<markdown, lines, mdI, mdNodes, inlineText, inlineResult>>
    /\ UNCHANGED <<qVars, navVars, urlVars>>

(***************************************************************************)
(* Enhancers: src/unnamed/part_000                                         *)
(***************************************************************************)
\* text.split(/\s+/): the pieces between maximal runs of white space; a run at
\* the start or at the end leaves an empty piece there, and the empty text
\* splits into one empty piece
RECURSIVE SplitWs(_)
SplitWs(text) ==
    LET k == LeadingRun(text, {c \in Range(text) : c \notin WhiteSpace})
        rest == SliceFrom(text, k)
    IN IF rest = <<>> THEN <<SubSeq(text, 1, k)>>
       ELSE <<SubSeq(text, 1, k)>> \o SplitWs(SliceFrom(rest, LeadingRun(rest, WhiteSpace)))

\* {...item, name: value}
WithField(item, name, value) ==
    [f \in DOMAIN item \cup {name} |-> IF f = name THEN value ELSE item[f]]

\* item.content || ''
ContentOf(item) == IF "content" \in DOMAIN item THEN item.content ELSE <<>>

wordsPerMinute == 200

\* the decimal digits of a natural number
RECURSIVE DecimalDigits(_)
DecimalDigits(n) ==
    LET d == <<"0", "1", "2", "3", "4", "5", "6", "7", "8", "9">>[(n % 10) + 1]
    IN IF n < 10 THEN <<d>> ELSE DecimalDigits(n \div 10) \o <<d>>

readTime(item) ==
    LET wc == Len(SplitWs(ContentOf(item)))
        minutes == (wc + wordsPerMinute - 1) \div wordsPerMinute
    IN WithField(item, "readTime", DecimalDigits(minutes) \o <<" ", "m", "i", "n">>)

wordCount(item) ==
    WithField(item, "wordCount", Len(SplitWs(ContentOf(item))))

\* the names registered in builtInEnhancers
BuiltInNames == {"readTime", "wordCount"}
builtInEnhancers(name, item) ==
    CASE name = "readTime" -> readTime(item)
      [] name = "wordCount" -> wordCount(item)

\* A step given to enhanceWith is a name (typeof 'string'), a function of the
\* caller's (typeof 'function') or anything else.  The caller's functions:
\*   "tag"   resolves, later, to the item with one more word in its content;
\*   "stall" returns a promise that never settles.
NameStep(name) == [kind |-> "string", id |-> name]
FnStep(id) == [kind |-> "function", id |-> id]

CallerFn(id, item) ==
    CASE id = "tag" -> WithField(item, "content", ContentOf(item) \o <<" ", "t">>)
      [] id = "stall" -> item

\* whether the for loop of applyEnhancers calls something for this step and
\* awaits it (a name that is not registered, or a step of another kind, is
\* passed over)
Awaited(step) ==
    \/ step.kind = "string" /\ step.id \in BuiltInNames
    \/ step.kind = "function"

\* what the awaited call resolves to
StepResult(step, item) ==
    IF step.kind = "string" THEN builtInEnhancers(step.id, item)
    ELSE CallerFn(step.id, item)

\* builtInEnhancers is an object literal, so builtInEnhancers[name] also finds
\* what the object inherits: for '__proto__' the lookup gives the prototype
\* object, which is truthy and not callable, and the call fn(enrichedItem)
\* throws a TypeError inside applyEnhancers
InheritedNames == {"__proto__"}
Throws(step) == step.kind = "string" /\ step.id \in InheritedNames

\* a step that is neither a string nor a function
OtherStep == [kind |-> "other", id |-> "object"]

\* whether the promise the step returned ever settles
Settles(step) == ~(step.kind = "function" /\ step.id = "stall")

\* The state of one applyEnhancers call: the position k of the for loop in
\* the enhancers array (the step it awaits, or the last one it looked at),
\* enrichedItem, whether it is suspended at an await, what the awaited call
\* will resolve to, whether the call has returned, and the history of the
\* calls it made (<<"call", k, argument>>) and of their results
\* (<<"ret", k, value>>).
\* The loop from position k on: steps are passed over until one is awaited.
RECURSIVE RunLoop(_, _, _, _)
RunLoop(enrichedItem, log, enh, k) ==
    IF k > Len(enh)
    THEN [k |-> Len(enh), enrichedItem |-> enrichedItem, awaiting |-> FALSE,
          pending |-> enrichedItem, returned |-> TRUE, threw |-> FALSE, log |-> log]
    ELSE IF Throws(enh[k])
    THEN [k |-> k, enrichedItem |-> enrichedItem, awaiting |-> FALSE,
          pending |-> enrichedItem, returned |-> FALSE, threw |-> TRUE, log |-> log]
    ELSE IF Awaited(enh[k])
    THEN [k |-> k, enrichedItem |-> enrichedItem, awaiting |-> TRUE,
          pending |-> StepResult(enh[k], enrichedItem), returned |-> FALSE,
          threw |-> FALSE, log |-> Append(log, <<"call", k, enrichedItem>>)]
    ELSE RunLoop(enrichedItem, log, enh, k + 1)

\* applyEnhancers(item, enhancers) up to its first await
applyEnhancers(item, enh) == RunLoop(item, <<>>, enh, 1)

\* a continuation that goes on with the item it had before the await
ResumeChainStale(ch, enh) ==
    RunLoop(ch.enrichedItem, Append(ch.log, <<"ret", ch.k, ch.pending>>), enh, ch.k + 1)

\* the continuation of applyEnhancers after the await of step ch.k
ResumeChain(ch, enh) ==
    RunLoop(ch.pending, Append(ch.log, <<"ret", ch.k, ch.pending>>), enh, ch.k + 1)

(***************************************************************************)
(* ZenCollection: src/content/index.ts                                     *)
(***************************************************************************)
\* the predicates callers pass to where()
Predicates == {"nGt1", "inA"}
Holds(fn, item) ==
    CASE fn = "nGt1" -> item.n > 1
      [] fn = "inA" -> StartsWith(item.slug, <<"a", "/">>)

\* results = results.filter(filter), once per filter
RECURSIVE ApplyFilters(_, _)
ApplyFilters(results, fs) ==
    IF fs = <<>> THEN results
    ELSE ApplyFilters(SelectSeq(results, LAMBDA item : Holds(Head(fs), item)), Tail(fs))

\* the comparator handed to results.sort
Compare(a, b, field, order) ==
    IF field \notin DOMAIN a \/ field \notin DOMAIN b THEN 0
    ELSE IF a[field] < b[field] THEN (IF order = "asc" THEN -1 ELSE 1)
    ELSE IF a[field] > b[field] THEN (IF order = "asc" THEN 1 ELSE -1)
    ELSE 0

\* a sort that puts an element in front of the elements it ties with
RECURSIVE InsertIntoUnstable(_, _, _, _)
InsertIntoUnstable(sorted, x, field, order) ==
    IF sorted = <<>> THEN <<x>>
    ELSE IF Compare(sorted[Len(sorted)], x, field, order) >= 0
    THEN Append(InsertIntoUnstable(SubSeq(sorted, 1, Len(sorted) - 1), x, field, order),
                sorted[Len(sorted)])
    ELSE Append(sorted, x)

\* Array.prototype.sort is stable: insertion of each element behind the last
\* element that does not compare greater than it
RECURSIVE InsertInto(_, _, _, _)
InsertInto(sorted, x, field, order) ==
    IF sorted = <<>> THEN <<x>>
    ELSE IF Compare(sorted[Len(sorted)], x, field, order) > 0
    THEN Append(InsertInto(SubSeq(sorted, 1, Len(sorted) - 1), x, field, order),
                sorted[Len(sorted)])
    ELSE Append(sorted, x)

RECURSIVE SortWith(_, _, _)
SortWith(results, field, order) ==
    IF results = <<>> THEN <<>>
    ELSE InsertInto(SortWith(SubSeq(results, 1, Len(results) - 1), field, order),
                    results[Len(results)], field, order)

\* results.slice(0, n) for n >= 0
SliceTo(results, n) == SubSeq(results, 1, Min(n, Len(results)))

\* the stages with the limit taken first
SelectStagesLimitFirst(items, fs, sField, sOrder, lim) ==
    LET limited == IF IsSome(lim) THEN SliceTo(items, Val(lim)) ELSE items
        filtered == ApplyFilters(limited, fs)
    IN IF IsSome(sField) THEN SortWith(filtered, Val(sField), sOrder) ELSE filtered

\* the stages with the sort moved behind the limit
SelectStagesSortLast(items, fs, sField, sOrder, lim) ==
    LET filtered == ApplyFilters(items, fs)
        limited == IF IsSome(lim) THEN SliceTo(filtered, Val(lim)) ELSE filtered
    IN IF IsSome(sField) THEN SortWith(limited, Val(sField), sOrder) ELSE limited

\* stages 1 to 3 of get(): filter, sort, limit
SelectStages(items, fs, sField, sOrder, lim) ==
    LET filtered == ApplyFilters(items, fs)
        sorted == IF IsSome(sField) THEN SortWith(filtered, Val(sField), sOrder)
                  ELSE filtered
    IN IF IsSome(lim) THEN SliceTo(sorted, Val(lim)) ELSE sorted

Undefined == "undefined"

\* stage 5 of get(): a new object holding the selected fields only
ProjectItem(item, fields) ==
    [f \in Range(fields) |-> IF f \in DOMAIN item THEN item[f] ELSE Undefined]
SelectFields(results, sel) ==
    IF IsSome(sel) THEN [i \in 1..Len(results) |-> ProjectItem(results[i], Val(sel))]
    ELSE results

\* what the terminal operation returns from the result of get()
Returned(kind, results) ==
    CASE kind \in {"get", "all"} -> results
      [] kind = "count" -> Len(results)
      [] kind = "first" -> IF Len(results) > 0 THEN <<results[1]>> ELSE <<>>

\* String(item.slug || item.id || '')
SlugOrId(item) ==
    IF "slug" \in DOMAIN item /\ item.slug # <<>> THEN item.slug
    ELSE IF "id" \in DOMAIN item /\ item.id # 0 THEN DecimalDigits(item.id)
    ELSE <<>>

DefaultFolder == <<"d", "e", "f", "a", "u", "l", "t">>

\* the key under which groupByFolder files an item
FolderOf(item) ==
    LET parts == SplitChar(SlugOrId(item), "/")
    IN IF Len(parts) > 1 THEN parts[1] ELSE DefaultFolder

\* the title made from a folder name: the words between '-' with their
\* first character in upper case, joined by spaces
FolderTitle(folder) ==
    LET words == SplitChar(folder, "-")
    IN Join([k \in 1..Len(words) |->
                IF words[k] = <<>> THEN <<>>
                ELSE <<Upper(words[k][1])>> \o Tail(words[k])], <<" ">>)

\* a grouping that opens a new group whenever the folder differs from the
\* folder of the item before
RECURSIVE GroupItemsAdjacent(_)
GroupItemsAdjacent(results) ==
    IF results = <<>> THEN <<>>
    ELSE LET groups == GroupItemsAdjacent(SubSeq(results, 1, Len(results) - 1))
             item == results[Len(results)]
             folder == FolderOf(item)
         IN IF groups # <<>> /\ groups[Len(groups)].id = folder
            THEN [groups EXCEPT ![Len(groups)].items = Append(@, item)]
            ELSE Append(groups, [id |-> folder, items |-> <<item>>])

\* the Map filled by the loop over results: a Map keeps its keys in the
\* order of their first insertion
RECURSIVE GroupItems(_)
GroupItems(results) ==
    IF results = <<>> THEN <<>>
    ELSE LET groups == GroupItems(SubSeq(results, 1, Len(results) - 1))
             item == results[Len(results)]
             folder == FolderOf(item)
         IN IF \E g \in 1..Len(groups) : groups[g].id = folder
            THEN [g \in 1..Len(groups) |->
                     IF groups[g].id = folder
                     THEN [groups[g] EXCEPT !.items = Append(@, item)]
                     ELSE groups[g]]
            ELSE Append(groups, [id |-> folder, items |-> <<item>>])

\* sections whose items are cut down to the selected fields
FolderSectionsProjected(groups) ==
    [g \in 1..Len(groups) |->
        [id |-> groups[g].id, title |-> FolderTitle(groups[g].id),
         items |-> SelectFields(groups[g].items, selectedFields)]]

\* the array of sections made from the Map
FolderSections(groups) ==
    [g \in 1..Len(groups) |->
        [id |-> groups[g].id, title |-> FolderTitle(groups[g].id),
         items |-> groups[g].items]]

\* a combinator that resolves as soon as one input promise has resolved
AnySettled(chains) == chains = <<>> \/ \E i \in 1..Len(chains) : chains[i].returned

\* Promise.all resolves once every input promise has resolved
AllSettled(chains) == \A i \in 1..Len(chains) : chains[i].returned

\* a combinator that hands the values over in the order of their resolution
PromiseAllAsCompleted(chains, completed) ==
    [i \in 1..Len(chains) |-> IF i <= Len(completed) THEN chains[completed[i]].enrichedItem
                              ELSE chains[i].enrichedItem]

\* Promise.all resolves to the values in the order of its inputs;
\* completed lists the inputs in the order in which they resolved
PromiseAll(chains, completed) == [i \in 1..Len(chains) |-> chains[i].enrichedItem]

\* the whole enrichment of one item when every step resolves at once
RECURSIVE RunToEnd(_, _)
RunToEnd(ch, enh) ==
    IF ch.returned \/ ch.threw THEN ch.enrichedItem
    ELSE IF ~Settles(enh[ch.k]) THEN ch.enrichedItem
    ELSE RunToEnd(ResumeChain(ch, enh), enh)

(***************************************************************************)
(* The builder as a process.  A chaining call is one step.  A terminal     *)
(* call runs synchronously up to the await of Promise.all (one step); each *)
(* resumption of an applyEnhancers call is one step; the continuation of   *)
(* get() after Promise.all is one step.                                    *)
(***************************************************************************)
MaxChain == 2
MaxReaders == 2
MaxConcItems == 2

Txt_abc == <<"a", " ", "b", " ", "c">>

\* the items the loader may supply
Item1 == [id |-> 1, slug |-> <<"a", "/", "x">>, n |-> 3, content |-> Txt_abc]
Item2 == [id |-> 2, slug |-> <<"a", "/", "y">>, n |-> 1, content |-> <<>>]
Item3 == [id |-> 3, slug |-> <<"b", "-", "c", "/", "z">>, n |-> 2, content |-> <<" ", "a">>]
Item4 == [id |-> 4, slug |-> <<"s">>, n |-> 2, content |-> <<"a">>]

\* the item sequences the loader supplies: none; n = 1 3; two items of equal
\* n; two items of equal n around a smaller one; two items of one folder
\* around an item of another
Snapshots ==
    { <<>>,
      <<Item2, Item1>>,
      <<Item3, Item4>>,
      <<Item3, Item2, Item4>>,
      <<Item1, Item3, Item2>> }

SortFields == {"n"}
OrderArgs == {None, Some("asc")}
LimitArgs == {1, 2}
FieldArgs == {<<"id", "n">>}
EnhancerArgs == {NameStep("wordCount"), NameStep("nope"), FnStep("tag"), FnStep("stall"),
                 NameStep("__proto__"), OtherStep}
TerminalKinds == {"get", "all", "count", "first"}

\* new ZenCollection(items)
QInit ==
    /\ collectionItems \in Snapshots
    /\ filters = <<>>
    /\ sortField = None
    /\ sortOrder = "desc"
    /\ limitCount = None
    /\ selectedFields = None
    /\ enhancers = <<>>
    /\ calls = <<>>
    /\ nChain = 0
    /\ sortArg = None
    /\ chainedLimit = None
    /\ chainLog = <<>>
    /\ sourceItems = collectionItems
    /\ nEdits = 0

QIdle ==
    /\ collectionItems = <<>>
    /\ filters = <<>>
    /\ sortField = None
    /\ sortOrder = "desc"
    /\ limitCount = None
    /\ selectedFields = None
    /\ enhancers = <<>>
    /\ calls = <<>>
    /\ nChain = 0
    /\ sortArg = None
    /\ chainedLimit = None
    /\ chainLog = <<>>
    /\ sourceItems = collectionItems
    /\ nEdits = 0

\* The calls kept once the caller goes on chaining: a call that has returned is
\* history and is dropped; a call still suspended is marked (quiet = FALSE) as
\* having seen a chaining call while it ran.
Disturbed(cs) ==
    LET live == SelectSeq(cs, LAMBDA call : call.status = "enhancing")
    IN [c \in 1..Len(live) |-> [live[c] EXCEPT !.quiet = FALSE]]

Chaining(lim, entry) ==
    /\ nChain < MaxChain
    /\ nChain' = nChain + 1
    /\ calls' = Disturbed(calls)
    /\ chainedLimit' = lim
    /\ chainLog' = Append(chainLog, entry)
    /\ UNCHANGED <<mdVars, navVars, urlVars>>

where(fn) ==
    /\ Chaining(limitCount, [op |-> "where", fn |-> fn])
    /\ filters' = Append(filters, fn)
    /\ UNCHANGED <<sourceItems, nEdits, collectionItems, sortField, sortOrder, limitCount, selectedFields,
                   enhancers, sortArg>>

\* order is None when the argument is omitted
sortBy(field, order) ==
    /\ Chaining(limitCount, [op |-> "sortBy", field |-> field, order |-> order])
    /\ sortField' = Some(field)
    /\ sortOrder' = IF IsSome(order) THEN Val(order) ELSE "desc"
    /\ sortArg' = order
    /\ UNCHANGED <<sourceItems, nEdits, collectionItems, filters, limitCount, selectedFields, enhancers>>

\* a limit that can only be lowered by a later call
limitKeepsSmaller(n) ==
    /\ Chaining(IF IsSome(limitCount) THEN Some(Min(Val(limitCount), n)) ELSE Some(n),
                [op |-> "limit", n |-> n])
    /\ limitCount' = IF IsSome(limitCount) THEN Some(Min(Val(limitCount), n)) ELSE Some(n)
    /\ UNCHANGED <<sourceItems, nEdits, collectionItems, filters, sortField, sortOrder,
                   selectedFields, enhancers, sortArg>>

limit(n) ==
    /\ Chaining(Some(n), [op |-> "limit", n |-> n])
    /\ limitCount' = Some(n)
    /\ UNCHANGED <<sourceItems, nEdits, collectionItems, filters, sortField, sortOrder, selectedFields,
                   enhancers, sortArg>>

fields(fs) ==
    /\ Chaining(limitCount, [op |-> "fields", fs |-> fs])
    /\ selectedFields' = Some(fs)
    /\ UNCHANGED <<sourceItems, nEdits, collectionItems, filters, sortField, sortOrder, limitCount,
                   enhancers, sortArg>>

enhanceWith(enhancer) ==
    /\ Chaining(limitCount, [op |-> "enhanceWith", enhancer |-> enhancer])
    /\ enhancers' = Append(enhancers, enhancer)
    /\ UNCHANGED <<sourceItems, nEdits, collectionItems, filters, sortField, sortOrder, limitCount,
                   selectedFields, sortArg>>

\* the writes the caller makes to its own array after the construction
MaxEdits == 1
SourceEdits == {"push", "pop", "reverse"}

Reverse(items) == [i \in 1..Len(items) |-> items[Len(items) + 1 - i]]

\* the caller's array after Array.prototype.push / pop / reverse
WriteSource(items, edit) ==
    CASE edit = "push" -> Append(items, Item4)
      [] edit = "pop" -> SubSeq(items, 1, Len(items) - 1)
      [] edit = "reverse" -> Reverse(items)

\* a snapshot that is the caller's array itself
SnapshotShared(own, source) == source

\* this.collectionItems once the caller's array holds source: the constructor
\* copied the array, so the snapshot keeps its own elements
Snapshot(own, source) == own

\* the caller writes to the array it had passed to the constructor
MutateSource(edit) ==
    /\ nEdits < MaxEdits
    /\ nEdits' = nEdits + 1
    /\ sourceItems' = WriteSource(sourceItems, edit)
    /\ collectionItems' = Snapshot(collectionItems, WriteSource(sourceItems, edit))
    /\ UNCHANGED <<filters, sortField, sortOrder, limitCount, selectedFields, enhancers,
                   calls, nChain, sortArg, chainedLimit, chainLog>>
    /\ UNCHANGED <<mdVars, navVars, urlVars>>

\* the indices of the chains that have returned, in increasing order
RECURSIVE ReturnedIn(_, _)
ReturnedIn(chains, from) ==
    IF from > Len(chains) THEN <<>>
    ELSE (IF chains[from].returned THEN <<from>> ELSE <<>>) \o ReturnedIn(chains, from + 1)

\* get(), all(), count() or first() up to the await of Promise.all, or to its
\* return when there is no enhancer.  first() sets the limit before it calls get().
\* readers is the number of terminal calls the caller keeps at a time.
Terminal(kind, readers) ==
    /\ Len(calls) < readers
    /\ LET lim == IF kind = "first" THEN Some(1) ELSE limitCount
           log == IF kind = "first" THEN Append(chainLog, [op |-> "limit", n |-> 1])
                  ELSE chainLog
           results == SelectStages(collectionItems, filters, sortField, sortOrder, lim)
           cfg == [filters |-> filters, sortField |-> sortField, sortOrder |-> sortOrder,
                   sortArg |-> sortArg, limitCount |-> lim, chainedLimit |-> chainedLimit,
                   selectedFields |-> selectedFields, enhancers |-> enhancers,
                   chainLog |-> log, edits |-> nEdits]
           chains == [i \in 1..Len(results) |-> applyEnhancers(results[i], enhancers)]
       IN /\ limitCount' = lim
          /\ chainLog' = log
          /\ calls' = Append(calls,
                IF Len(enhancers) > 0
                THEN [kind |-> kind, cfg |-> cfg, selected |-> results,
                      results |-> results, chains |-> chains,
                      completed |-> ReturnedIn(chains, 1), status |-> "enhancing",
                      ret |-> <<>>, quiet |-> TRUE]
                ELSE [kind |-> kind, cfg |-> cfg, selected |-> results,
                      results |-> SelectFields(results, selectedFields), chains |-> <<>>,
                      completed |-> <<>>, status |-> "done",
                      ret |-> Returned(kind, SelectFields(results, selectedFields)),
                      quiet |-> TRUE])
    /\ UNCHANGED <<sourceItems, nEdits, collectionItems, filters, sortField, sortOrder, selectedFields,
                   enhancers, nChain, sortArg, chainedLimit>>
    /\ UNCHANGED <<mdVars, navVars, urlVars>>

\* groupByFolder().get(): synchronous; filter, sort and limit as in get(),
\* then the grouping
groupByFolderGet(readers) ==
    /\ Len(calls) < readers
    /\ LET results == SelectStages(collectionItems, filters, sortField, sortOrder,
                                   limitCount)
           cfg == [filters |-> filters, sortField |-> sortField, sortOrder |-> sortOrder,
                   sortArg |-> sortArg, limitCount |-> limitCount,
                   chainedLimit |-> chainedLimit, selectedFields |-> selectedFields,
                   enhancers |-> enhancers, chainLog |-> chainLog, edits |-> nEdits]
       IN calls' = Append(calls,
              [kind |-> "groupByFolder", cfg |-> cfg, selected |-> results,
               results |-> results, chains |-> <<>>, completed |-> <<>>,
               status |-> "done", ret |-> FolderSections(GroupItems(results)),
               quiet |-> TRUE])
    /\ UNCHANGED <<sourceItems, nEdits, collectionItems, filters, sortField, sortOrder, limitCount,
                   selectedFields, enhancers, nChain, sortArg, chainedLimit, chainLog>>
    /\ UNCHANGED <<mdVars, navVars, urlVars>>

\* the promise awaited by the applyEnhancers call of item i of call c resolves
Resume(c, i) ==
    /\ calls[c].status = "enhancing"
    /\ calls[c].chains[i].awaiting
    /\ Settles(enhancers[calls[c].chains[i].k])
    /\ LET ch == ResumeChain(calls[c].chains[i], enhancers)
       IN calls' = [calls EXCEPT ![c].chains[i] = ch,
                                 ![c].completed =
                                     IF ch.returned THEN Append(@, i) ELSE @]
    /\ UNCHANGED <<sourceItems, nEdits, collectionItems, filters, sortField, sortOrder, limitCount,
                   selectedFields, enhancers, nChain, sortArg, chainedLimit, chainLog>>
    /\ UNCHANGED <<mdVars, navVars, urlVars>>

\* a get() that ran its filter, sort and limit stages after the await, on the
\* builder's settings of that moment
FinishReselect(c) ==
    /\ calls[c].status = "enhancing"
    /\ AllSettled(calls[c].chains)
    /\ LET enriched == PromiseAll(calls[c].chains, calls[c].completed)
           results == SelectFields(SelectStages(enriched, filters, sortField, sortOrder,
                                                limitCount),
                                   selectedFields)
       IN calls' = [calls EXCEPT ![c].results = results,
                                 ![c].ret = Returned(calls[c].kind, results),
                                 ![c].status = "done"]
    /\ UNCHANGED <<sourceItems, nEdits, collectionItems, filters, sortField, sortOrder, limitCount,
                   selectedFields, enhancers, nChain, sortArg, chainedLimit, chainLog>>
    /\ UNCHANGED <<mdVars, navVars, urlVars>>

\* Promise.all has resolved: stage 5 of get() and the return
Finish(c) ==
    /\ calls[c].status = "enhancing"
    /\ AllSettled(calls[c].chains)
    /\ LET results == SelectFields(PromiseAll(calls[c].chains, calls[c].completed),
                                   selectedFields)
       IN calls' = [calls EXCEPT ![c].results = results,
                                 ![c].ret = Returned(calls[c].kind, results),
                                 ![c].status = "done"]
    /\ UNCHANGED <<sourceItems, nEdits, collectionItems, filters, sortField, sortOrder, limitCount,
                   selectedFields, enhancers, nChain, sortArg, chainedLimit, chainLog>>
    /\ UNCHANGED <<mdVars, navVars, urlVars>>

\* Promise.all rejects as soon as one applyEnhancers call has thrown: the
\* await in get() throws and the promise of the terminal call is rejected
Reject(c) ==
    /\ calls[c].status = "enhancing"
    /\ \E i \in 1..Len(calls[c].chains) : calls[c].chains[i].threw
    /\ calls' = [calls EXCEPT ![c].status = "rejected"]
    /\ UNCHANGED <<sourceItems, nEdits, collectionItems, filters, sortField, sortOrder, limitCount,
                   selectedFields, enhancers, nChain, sortArg, chainedLimit, chainLog>>
    /\ UNCHANGED <<mdVars, navVars, urlVars>>

Progress ==
    \/ \E c \in 1..Len(calls) : \E i \in 1..Len(calls[c].chains) : Resume(c, i)
    \/ \E c \in 1..Len(calls) : Finish(c)
    \/ \E c \in 1..Len(calls) : Reject(c)

Chain ==
    \/ \E fn \in Predicates : where(fn)
    \/ \E f \in SortFields, o \in OrderArgs : sortBy(f, o)
    \/ \E n \in LimitArgs : limit(n)
    \/ \E fs \in FieldArgs : fields(fs)
    \/ \E e \in EnhancerArgs : enhanceWith(e)

\* a caller that keeps one terminal call at a time
QNext ==
    \/ Chain
    \/ \E kind \in TerminalKinds : Terminal(kind, 1)
    \/ groupByFolderGet(1)
    \/ Progress

\* the chaining calls that select: no enrichment step is added
ChainSelect ==
    \/ \E fn \in Predicates : where(fn)
    \/ \E f \in SortFields, o \in OrderArgs : sortBy(f, o)
    \/ \E n \in LimitArgs : limit(n)
    \/ \E fs \in FieldArgs : fields(fs)

\* a caller that selects, reads, and writes to the array it constructed the
\* builder from
QSourceNext ==
    \/ ChainSelect
    \/ \E kind \in TerminalKinds : Terminal(kind, 1)
    \/ groupByFolderGet(1)
    \/ \E edit \in SourceEdits : MutateSource(edit)

\* a caller that makes terminal calls concurrently
QConcNext ==
    \/ Chain
    \/ \E kind \in TerminalKinds : Terminal(kind, MaxReaders)
    \/ Progress

(***************************************************************************)
(* The ordering index: src/content/hooks/useZenOrder.ts                    *)
(***************************************************************************)
\* the class \w of the patterns
WordChars == Range(Uppers) \cup Range(Lowers) \cup Digits \cup {"_"}

\* replace(/S+/g, r): every maximal run of characters of S becomes r
RECURSIVE ReplaceRuns(_, _, _)
ReplaceRuns(text, S, r) ==
    IF text = <<>> THEN <<>>
    ELSE IF Head(text) \in S
    THEN <<r>> \o ReplaceRuns(SliceFrom(text, LeadingRun(text, S)), S, r)
    ELSE <<Head(text)>> \o ReplaceRuns(Tail(text), S, r)

slugify(text) ==
    LET lower == [k \in 1..Len(text) |-> Lower(text[k])]
        kept == SelectSeq(lower, LAMBDA c : c \in WordChars \cup WhiteSpace \cup {"-"})
        hyphened == ReplaceRuns(kept, WhiteSpace, "-")
    IN Trim(ReplaceRuns(hyphened, {"-"}, "-"))

\* a || b on strings: the empty (or absent) string is falsy
OrElse(a, b) == IF a # <<>> THEN a ELSE b

getDocSlug(doc) ==
    LET slugOrId == OrElse(doc.slug, OrElse(doc.id, <<>>))
        parts == SplitChar(slugOrId, "/")
        filename == parts[Len(parts)]
    IN IF filename # <<>> THEN slugify(filename)
       ELSE slugify(OrElse(doc.title, <<"u", "n", "t", "i", "t", "l", "e", "d">>))

\* comparison of two sequences of numbers, -1, 0 or 1
RECURSIVE LexCompare(_, _)
LexCompare(a, b) ==
    IF a = <<>> /\ b = <<>> THEN 0
    ELSE IF a = <<>> THEN -1
    ELSE IF b = <<>> THEN 1
    ELSE IF Head(a) < Head(b) THEN -1
    ELSE IF Head(a) > Head(b) THEN 1
    ELSE LexCompare(Tail(a), Tail(b))

\* String.prototype.localeCompare on texts made of unaccented letters: the
\* letters decide whatever their case, and of two texts with the same
\* letters the one with the lower-case letter at the first difference is
\* first
localeCompare(a, b) ==
    LET Letters(t) == [k \in 1..Len(t) |->
                          CHOOSE n \in 1..Len(Lowers) : Lowers[n] = Lower(t[k])]
        Cases(t) == [k \in 1..Len(t) |-> IF IsUpper(t[k]) THEN 1 ELSE 0]
        primary == LexCompare(Letters(a), Letters(b))
    IN IF primary # 0 THEN primary ELSE LexCompare(Cases(a), Cases(b))

\* a comparator that looks at the intro documents before the order
CompareSectionsIntroFirst(a, b) ==
    IF a.hasIntro /\ ~b.hasIntro THEN -1
    ELSE IF ~a.hasIntro /\ b.hasIntro THEN 1
    ELSE IF IsSome(a.order) /\ IsSome(b.order) THEN Val(a.order) - Val(b.order)
    ELSE IF IsSome(a.order) THEN -1
    ELSE IF IsSome(b.order) THEN 1
    ELSE localeCompare(a.title, b.title)

\* the comparator of sortSections
CompareSections(a, b) ==
    IF IsSome(a.order) /\ IsSome(b.order) THEN Val(a.order) - Val(b.order)
    ELSE IF IsSome(a.order) THEN -1
    ELSE IF IsSome(b.order) THEN 1
    ELSE IF a.hasIntro /\ ~b.hasIntro THEN -1
    ELSE IF ~a.hasIntro /\ b.hasIntro THEN 1
    ELSE localeCompare(a.title, b.title)

\* a comparator that looks at the order before the intro flag
CompareDocsOrderFirst(a, b) ==
    IF IsSome(a.order) /\ IsSome(b.order) /\ Val(a.order) # Val(b.order)
    THEN Val(a.order) - Val(b.order)
    ELSE IF IsSome(a.order) /\ ~IsSome(b.order) THEN -1
    ELSE IF IsSome(b.order) /\ ~IsSome(a.order) THEN 1
    ELSE IF a.isIntro /\ ~b.isIntro THEN -1
    ELSE IF ~a.isIntro /\ b.isIntro THEN 1
    ELSE localeCompare(a.title, b.title)

\* the comparator of sortDocs
CompareDocs(a, b) ==
    IF a.isIntro /\ ~b.isIntro THEN -1
    ELSE IF ~a.isIntro /\ b.isIntro THEN 1
    ELSE IF IsSome(a.order) /\ IsSome(b.order) THEN Val(a.order) - Val(b.order)
    ELSE IF IsSome(a.order) THEN -1
    ELSE IF IsSome(b.order) THEN 1
    ELSE localeCompare(a.title, b.title)

\* [...sections].sort(comparator): the stable sort
RECURSIVE InsertSection(_, _)
InsertSection(sorted, x) ==
    IF sorted = <<>> THEN <<x>>
    ELSE IF CompareSections(sorted[Len(sorted)], x) > 0
    THEN Append(InsertSection(SubSeq(sorted, 1, Len(sorted) - 1), x), sorted[Len(sorted)])
    ELSE Append(sorted, x)

RECURSIVE sortSections(_)
sortSections(secs) ==
    IF secs = <<>> THEN <<>>
    ELSE InsertSection(sortSections(SubSeq(secs, 1, Len(secs) - 1)), secs[Len(secs)])

RECURSIVE InsertDoc(_, _)
InsertDoc(sorted, x) ==
    IF sorted = <<>> THEN <<x>>
    ELSE IF CompareDocs(sorted[Len(sorted)], x) > 0
    THEN Append(InsertDoc(SubSeq(sorted, 1, Len(sorted) - 1), x), sorted[Len(sorted)])
    ELSE Append(sorted, x)

RECURSIVE sortDocs(_)
sortDocs(docs) ==
    IF docs = <<>> THEN <<>>
    ELSE InsertDoc(sortDocs(SubSeq(docs, 1, Len(docs) - 1)), docs[Len(docs)])

\* one element of rawSections.map(...)
ProcessSection(rawSection) ==
    LET sectionSlug == slugify(OrElse(rawSection.title,
                           OrElse(rawSection.id, <<"s", "e", "c", "t", "i", "o", "n">>)))
        items == [k \in 1..Len(rawSection.items) |->
                    LET item == rawSection.items[k]
                    IN WithField(WithField([item EXCEPT !.slug = getDocSlug(item)],
                                           "sectionSlug", sectionSlug),
                                 "isIntro", item.intro \/ "intro" \in Range(item.tags))]
        sortedItems == sortDocs(items)
    IN [id |-> OrElse(rawSection.id, sectionSlug),
        title |-> OrElse(rawSection.title,
                         <<"U", "n", "t", "i", "t", "l", "e", "d", " ",
                           "S", "e", "c", "t", "i", "o", "n">>),
        slug |-> sectionSlug,
        order |-> IF IsSome(rawSection.order) THEN rawSection.order
                  ELSE rawSection.metaOrder,
        hasIntro |-> \E k \in 1..Len(sortedItems) : sortedItems[k].isIntro,
        items |-> sortedItems]

processRawSections(raw) ==
    sortSections([k \in 1..Len(raw) |-> ProcessSection(raw[k])])

\* Array.prototype.findIndex, 1-based: 0 when no element has the slug
FindIndexBySlug(list, slug) ==
    IF \E k \in 1..Len(list) : list[k].slug = slug
    THEN CHOOSE k \in 1..Len(list) :
             list[k].slug = slug /\ \A j \in 1..(k - 1) : list[j].slug # slug
    ELSE 0

\* Array.prototype.find(...) || null
FindBySlug(list, slug) ==
    LET k == FindIndexBySlug(list, slug) IN IF k = 0 THEN None ELSE Some(list[k])

\* list[k] || null, k 1-based
At(list, k) == IF k >= 1 /\ k <= Len(list) THEN Some(list[k]) ELSE None

getSectionBySlug(secs, sectionSlug) == FindBySlug(secs, sectionSlug)

getDocBySlug(secs, sectionSlug, docSlug) ==
    LET section == FindBySlug(secs, sectionSlug)
    IN IF ~IsSome(section) THEN None ELSE FindBySlug(Val(section).items, docSlug)

getNextDoc(secs, currentDoc) ==
    LET found == FindBySlug(secs, currentDoc.sectionSlug)
    IN IF ~IsSome(found) THEN None
       ELSE LET currentSection == Val(found)
                currentIndex == FindIndexBySlug(currentSection.items, currentDoc.slug)
                sectionIndex == FindIndexBySlug(secs, currentSection.slug)
            IN IF currentIndex < Len(currentSection.items)
               THEN Some(currentSection.items[currentIndex + 1])
               ELSE IF sectionIndex < Len(secs)
               THEN At(secs[sectionIndex + 1].items, 1)
               ELSE None

\* a getPrevDoc that stays inside the section of the document
getPrevDocInSection(secs, currentDoc) ==
    LET found == FindBySlug(secs, currentDoc.sectionSlug)
    IN IF ~IsSome(found) THEN None
       ELSE At(Val(found).items, FindIndexBySlug(Val(found).items, currentDoc.slug) - 1)

getPrevDoc(secs, currentDoc) ==
    LET found == FindBySlug(secs, currentDoc.sectionSlug)
    IN IF ~IsSome(found) THEN None
       ELSE LET currentSection == Val(found)
                currentIndex == FindIndexBySlug(currentSection.items, currentDoc.slug)
                sectionIndex == FindIndexBySlug(secs, currentSection.slug)
            IN IF currentIndex > 1
               THEN Some(currentSection.items[currentIndex - 1])
               ELSE IF sectionIndex > 1
               THEN At(secs[sectionIndex - 1].items, Len(secs[sectionIndex - 1].items))
               ELSE None

\* the instance createZenOrder returns
createZenOrder(raw) ==
    LET secs == processRawSections(raw)
    IN [sections |-> secs,
        selectedSection |-> At(secs, 1),
        selectedDoc |-> IF Len(secs) > 0 THEN At(secs[1].items, 1) ELSE None]

(***************************************************************************)
(* The index as a process: createZenOrder builds the instance, then the    *)
(* caller selects and queries.                                             *)
(***************************************************************************)
MaxSections == 3

\* raw items as groupByFolder hands them over; an absent text is <<>>, an
\* absent tags list is <<>>, an absent order is None
RawDoc(id, slug, title, intro, tags, order) ==
    [id |-> id, slug |-> slug, title |-> title, intro |-> intro, tags |-> tags,
     order |-> order]
DocIntro == RawDoc(<<"d", "1">>, <<"g", "/", "i", "n", "t", "r", "o">>,
                   <<"i", "n", "t", "r", "o">>, TRUE, <<>>, None)
DocSetup == RawDoc(<<"d", "2">>, <<"g", "/", "s", "e", "t", "u", "p">>,
                   <<"s", "e", "t", "u", "p">>, FALSE, <<>>, None)
DocApi == RawDoc(<<"d", "3">>, <<"g", "/", "x", "/", "I", "n", "t", "r", "o">>,
                 <<"a", "p", "i">>, FALSE, <<>>, Some(1))
DocZed == RawDoc(<<"d", "4">>, <<"z", "/">>, <<"Z", "e", "d">>, FALSE,
                 <<"intro">>, None)

DocFaq == RawDoc(<<"d", "5">>, <<"g", "/", "f", "a", "q">>, <<"f", "a", "q">>, FALSE,
                 <<>>, None)
DocTop == RawDoc(<<"d", "6">>, <<"g", "/", "t", "o", "p">>, <<"t", "o", "p">>, FALSE,
                 <<>>, Some(2))

RawSection(id, title, order, metaOrder, items) ==
    [id |-> id, title |-> title, order |-> order, metaOrder |-> metaOrder,
     items |-> items]
RawSectionPool ==
    { RawSection(<<"g">>, <<"G", "u", "i", "d", "e">>, None, None,
                 <<DocSetup, DocIntro, DocFaq>>),
      RawSection(<<>>, <<"a", "p", "i">>, None, Some(1), <<DocTop, DocApi, DocZed>>),
      RawSection(<<"b">>, <<"b", "a", "s", "i", "c", "s">>, None, None,
                 <<DocSetup, DocIntro, DocApi>>),
      RawSection(<<"e">>, <<"e", "m", "p", "t", "y">>, Some(1), None, <<>>),
      RawSection(<<"z">>, <<"Z", "e", "d">>, Some(2), None, <<DocZed, DocIntro>>),
      RawSection(<<"m">>, <<"m", "i", "s", "c">>, None, None, <<DocFaq>>),
      RawSection(<<"B">>, <<"B", "a", "s", "i", "c", "s">>, None, None, <<DocFaq>>) }
RawBatches == DistinctSeqsOf(RawSectionPool, 0, MaxSections)

Nope == <<"n", "o", "p", "e">>
\* a document of some other index
ForeignDoc ==
    WithField(WithField([DocSetup EXCEPT !.slug = <<"s", "e", "t", "u", "p">>],
                        "sectionSlug", Nope), "isIntro", FALSE)

\* the documents of the index, in index order
IndexDocs(secs) == Flatten([k \in 1..Len(secs) |-> secs[k].items])
DocArgs == Range(IndexDocs(sections)) \cup {ForeignDoc}
SectionSlugArgs == {sections[k].slug : k \in 1..Len(sections)} \cup {Nope}
DocSlugArgs == {d.slug : d \in Range(IndexDocs(sections))} \cup {Nope}

NavInit ==
    /\ rawSections \in RawBatches
    /\ sections = createZenOrder(rawSections).sections
    /\ selectedSection = createZenOrder(rawSections).selectedSection
    /\ selectedDoc = createZenOrder(rawSections).selectedDoc
    /\ navRet = None
    /\ walkPc = "idle"
    /\ walkDoc = None
    /\ walkVisited = <<>>

selectSection(section) ==
    /\ selectedSection' = Some(section)
    /\ selectedDoc' = At(section.items, 1)
    /\ UNCHANGED <<rawSections, sections, navRet, walkPc, walkDoc, walkVisited>>
    /\ UNCHANGED <<mdVars, qVars, urlVars>>

\* a selectDoc that drops the selected section when the document's section is
\* not in the index
selectDocOrNone(doc) ==
    /\ selectedDoc' = Some(doc)
    /\ selectedSection' = FindBySlug(sections, doc.sectionSlug)
    /\ UNCHANGED <<rawSections, sections, navRet, walkPc, walkDoc, walkVisited>>
    /\ UNCHANGED <<mdVars, qVars, urlVars>>

selectDoc(doc) ==
    /\ selectedDoc' = Some(doc)
    /\ LET docSection == FindBySlug(sections, doc.sectionSlug)
       IN selectedSection' = IF IsSome(docSection) THEN docSection ELSE selectedSection
    /\ UNCHANGED <<rawSections, sections, navRet, walkPc, walkDoc, walkVisited>>
    /\ UNCHANGED <<mdVars, qVars, urlVars>>

\* a query on the index: navRet records the operation, its arguments and
\* what it returned
Query(op, args, value) ==
    /\ navRet' = Some([op |-> op, args |-> args, value |-> value])
    /\ UNCHANGED <<rawSections, sections, selectedSection, selectedDoc,
                   walkPc, walkDoc, walkVisited>>
    /\ UNCHANGED <<mdVars, qVars, urlVars>>

CallGetSectionBySlug(sectionSlug) ==
    Query("getSectionBySlug", <<sectionSlug>>, getSectionBySlug(sections, sectionSlug))
CallGetDocBySlug(sectionSlug, docSlug) ==
    Query("getDocBySlug", <<sectionSlug, docSlug>>,
          getDocBySlug(sections, sectionSlug, docSlug))
CallGetNextDoc(currentDoc) ==
    Query("getNextDoc", <<currentDoc>>, getNextDoc(sections, currentDoc))
CallGetPrevDoc(currentDoc) ==
    Query("getPrevDoc", <<currentDoc>>, getPrevDoc(sections, currentDoc))

\* the number of steps a walk is followed for
MaxWalk == 10

\* a caller starts a walk at the first document of the first section
StartWalk ==
    /\ walkPc = "idle"
    /\ Len(sections) > 0
    /\ Len(sections[1].items) > 0
    /\ walkPc' = "walking"
    /\ walkDoc' = Some(sections[1].items[1])
    /\ walkVisited' = <<sections[1].items[1]>>
    /\ UNCHANGED <<rawSections, sections, selectedSection, selectedDoc, navRet>>
    /\ UNCHANGED <<mdVars, qVars, urlVars>>

\* the caller asks getNextDoc for the document after the one it is at, and
\* goes there, or stops when there is none
StepWalk ==
    /\ walkPc = "walking"
    /\ Len(walkVisited) < MaxWalk
    /\ LET next == getNextDoc(sections, Val(walkDoc))
       IN /\ walkDoc' = next
          /\ walkPc' = IF IsSome(next) THEN "walking" ELSE "done"
          /\ walkVisited' = IF IsSome(next) THEN Append(walkVisited, Val(next))
                            ELSE walkVisited
    /\ UNCHANGED <<rawSections, sections, selectedSection, selectedDoc, navRet>>
    /\ UNCHANGED <<mdVars, qVars, urlVars>>

\* a caller that asks for neighbours and walks the index
WalkNext ==
    \/ \E d \in DocArgs : CallGetNextDoc(d)
    \/ \E d \in DocArgs : CallGetPrevDoc(d)
    \/ StartWalk
    \/ StepWalk

\* a caller that only selects
SelectNext ==
    \/ \E k \in 1..Len(sections) : selectSection(sections[k])
    \/ \E d \in DocArgs : selectDoc(d)

\* a caller that only selects, and only sections and documents of the index
SelectOwnNext ==
    \/ \E k \in 1..Len(sections) : selectSection(sections[k])
    \/ \E d \in Range(IndexDocs(sections)) : selectDoc(d)

NavNext ==
    \/ \E k \in 1..Len(sections) : selectSection(sections[k])
    \/ \E d \in DocArgs : selectDoc(d)
    \/ \E ss \in SectionSlugArgs : CallGetSectionBySlug(ss)
    \/ \E ss \in SectionSlugArgs, ds \in DocSlugArgs : CallGetDocBySlug(ss, ds)
    \/ \E d \in DocArgs : CallGetNextDoc(d)
    \/ \E d \in DocArgs : CallGetPrevDoc(d)

(***************************************************************************)
(* The URL helpers: buildDocUrl and parseDocUrl                            *)
(***************************************************************************)
DocumentationRoot == <<"/", "d", "o", "c", "u", "m", "e", "n", "t", "a", "t", "i", "o", "n">>
IndexSlug == <<"i", "n", "d", "e", "x">>

\* a builder that leaves the segment out only when no docSlug is given
buildDocUrlKeepsIndex(sectionSlug, docSlug) ==
    IF ~IsSome(docSlug) THEN DocumentationRoot \o <<"/">> \o sectionSlug
    ELSE DocumentationRoot \o <<"/">> \o sectionSlug \o <<"/">> \o Val(docSlug)

\* docSlug is None when the argument is omitted
buildDocUrl(sectionSlug, docSlug) ==
    IF ~IsSome(docSlug) \/ Val(docSlug) = <<>> \/ Val(docSlug) = IndexSlug
    THEN DocumentationRoot \o <<"/">> \o sectionSlug
    ELSE DocumentationRoot \o <<"/">> \o sectionSlug \o <<"/">> \o Val(docSlug)

\* The pattern of parseDocUrl: the text /documentation/ at the start, one or
\* more characters other than '/', then optionally '/' and one or more
\* characters other than '/', then the end of the path.  match[k] || null.
parseDocUrl(path) ==
    LET head == DocumentationRoot \o <<"/">>
        rest == SliceFrom(path, Len(head))
        first == LeadingRun(rest, {c \in Range(rest) : c # "/"})
        after == SliceFrom(rest, first)
        second == SliceFrom(after, 1)
        noMatch == [sectionSlug |-> None, docSlug |-> None]
    IN IF ~StartsWith(path, head) \/ first = 0 THEN noMatch
       ELSE IF after = <<>>
       THEN [sectionSlug |-> Some(SubSeq(rest, 1, first)), docSlug |-> None]
       ELSE IF second # <<>> /\ "/" \notin Range(second)
       THEN [sectionSlug |-> Some(SubSeq(rest, 1, first)), docSlug |-> Some(second)]
       ELSE noMatch

\* the slugs callers hand to buildDocUrl
SlugArgs == { <<"g">>, <<"g", "-", "1">>, <<"s", "e", "t", "u", "p">>, IndexSlug,
              <<>>, <<"a", "/", "b">> }
\* paths that were not built by buildDocUrl
OtherPaths ==
    { <<>>, <<"/">>, DocumentationRoot, DocumentationRoot \o <<"/">>,
      DocumentationRoot \o <<"/", "g", "/">>,
      DocumentationRoot \o <<"/", "g", "/", "a", "/", "b">>,
      DocumentationRoot \o <<"s", "/", "g">>,
      <<"/", "d", "o", "c", "s", "/", "g">>,
      <<"x">> \o DocumentationRoot \o <<"/", "g">>,
      DocumentationRoot \o <<"/", "/", "g">>,
      DocumentationRoot \o <<"/", "g", "/", "a">>,
      <<"g">> }

UrlInit ==
    /\ urlArgs = None
    /\ urlPath = None
    /\ urlParsed = None

\* the caller builds a URL
BuildUrl(sectionSlug, docSlug) ==
    /\ urlArgs' = Some([sectionSlug |-> sectionSlug, docSlug |-> docSlug])
    /\ urlPath' = Some(buildDocUrl(sectionSlug, docSlug))
    /\ urlParsed' = None
    /\ UNCHANGED <<mdVars, qVars, navVars>>

\* a path arrives from elsewhere (the address bar)
VisitPath(path) ==
    /\ urlArgs' = None
    /\ urlPath' = Some(path)
    /\ urlParsed' = None
    /\ UNCHANGED <<mdVars, qVars, navVars>>

\* the caller parses the current path
ParseUrl ==
    /\ IsSome(urlPath)
    /\ urlParsed' = Some(parseDocUrl(Val(urlPath)))
    /\ UNCHANGED <<urlArgs, urlPath>>
    /\ UNCHANGED <<mdVars, qVars, navVars>>

UrlNext ==
    \/ \E ss \in SlugArgs, ds \in {None} \cup {Some(d) : d \in SlugArgs} : BuildUrl(ss, ds)
    \/ \E path \in OtherPaths : VisitPath(path)
    \/ ParseUrl

NavIdle ==
    /\ rawSections = <<>>
    /\ sections = <<>>
    /\ selectedSection = None
    /\ selectedDoc = None
    /\ navRet = <<>>
    /\ walkPc = "idle"
    /\ walkDoc = None
    /\ walkVisited = <<>>

UrlIdle ==
    /\ urlArgs = <<>>
    /\ urlPath = <<>>
    /\ urlParsed = <<>>

\* the markdown compiler alone
MdSpecInit == MdInit /\ QIdle /\ NavIdle /\ UrlIdle
MdNext == BlockScan \/ ScanReturn \/ Serialize
MdSpec == MdSpecInit /\ [][MdNext]_vars

\* the inline scan alone
InlineSpecInit == InlineInit /\ QIdle /\ NavIdle /\ UrlIdle
InlineNext == CallParseInline
InlineSpec == InlineSpecInit /\ [][InlineNext]_vars

\* the ordering index alone
NavSpecInit == MdIdle /\ QIdle /\ NavInit /\ UrlIdle
NavSpec == NavSpecInit /\ [][NavNext]_vars

\* the ordering index with a caller that only selects
SelectSpec == NavSpecInit /\ [][SelectNext]_vars

\* the ordering index with a caller that selects what the index holds
SelectOwnSpec == NavSpecInit /\ [][SelectOwnNext]_vars

\* the ordering index with a caller that asks for neighbours and walks
WalkSpec == NavSpecInit /\ [][WalkNext]_vars

\* the URL helpers alone
UrlSpecInit == MdIdle /\ QIdle /\ NavIdle /\ UrlInit
UrlSpec == UrlSpecInit /\ [][UrlNext]_vars

\* the query builder alone, one terminal call at a time
QSpecInit == MdIdle /\ QInit /\ NavIdle /\ UrlIdle
QSpec == QSpecInit /\ [][QNext]_vars

\* the query builder and the array it was constructed from
QSourceSpec == QSpecInit /\ [][QSourceNext]_vars

\* the query builder alone, with concurrent terminal calls, over the
\* snapshots of at most two items
QConcSpecInit == QSpecInit /\ Len(collectionItems) <= MaxConcItems
QConcSpec == QConcSpecInit /\ [][QConcNext]_vars

(***************************************************************************)
(* Properties of compileMarkdown                                           *)
(***************************************************************************)
\* C1: compileMarkdown never loops: every pass of the block scan over a line
\* (a line that is no valid heading but starts with '#' included) leaves the
\* cursor further on than it found it, so the scan reaches the end of the
\* input.
C1_ScanAdvances ==
    (mdPc = "scan" /\ mdI <= Len(lines)) => ScanPass(lines, mdI, mdNodes).i > mdI

(***************************************************************************)
(* Properties of the query builder                                         *)
(***************************************************************************)
\* The stages of section 4 of the specification, written from their
\* description: the items every predicate accepts, in snapshot order; then
\* the order by the sort field, ties in the order they had; then the prefix;
\* then the steps one after the other; then the selected fields.
IsCollectionCall(call) == call.kind \in {"get", "all"}

RefFilter(items, fs) ==
    SelectSeq(items, LAMBDA item : \A k \in 1..Len(fs) : Holds(fs[k], item))

\* whether the item at position a goes before the item at position b
GoesBefore(items, a, b, field, order) ==
    IF items[a][field] = items[b][field] THEN a < b
    ELSE IF order = "asc" THEN items[a][field] < items[b][field]
    ELSE items[a][field] > items[b][field]

RefSort(items, field, order) ==
    LET Pos == 1..Len(items)
        Rank(a) == Cardinality({b \in Pos : b # a /\ GoesBefore(items, b, a, field, order)})
    IN [p \in Pos |-> items[CHOOSE a \in Pos : Rank(a) = p - 1]]

RefLimit(items, lim) ==
    IF IsSome(lim) /\ Val(lim) < Len(items) THEN SubSeq(items, 1, Val(lim)) ELSE items

RECURSIVE RefEnrich(_, _, _)
RefEnrich(item, enh, k) ==
    IF k > Len(enh) THEN item
    ELSE RefEnrich(IF Awaited(enh[k]) THEN StepResult(enh[k], item) ELSE item, enh, k + 1)

RefProject(item, sel) ==
    IF IsSome(sel)
    THEN [f \in Range(Val(sel)) |-> IF f \in DOMAIN item THEN item[f] ELSE Undefined]
    ELSE item

RefSelect(items, cfg) ==
    LET filtered == RefFilter(items, cfg.filters)
        sorted == IF IsSome(cfg.sortField)
                  THEN RefSort(filtered, Val(cfg.sortField), cfg.sortOrder)
                  ELSE filtered
    IN RefLimit(sorted, cfg.limitCount)

RefGet(items, cfg) ==
    LET selected == RefSelect(items, cfg)
    IN [i \in 1..Len(selected) |->
            RefProject(RefEnrich(selected[i], cfg.enhancers, 1), cfg.selectedFields)]

\* C2: whatever the order in which the chaining calls were made, get() (and
\* all()) returns the snapshot filtered, then sorted, then limited, then
\* enriched, then projected, under the settings it was invoked with.
C2_StagesInFixedOrder ==
    \A c \in 1..Len(calls) :
        (calls[c].status = "done" /\ calls[c].quiet /\ IsCollectionCall(calls[c]))
            => calls[c].ret = RefGet(collectionItems, calls[c].cfg)

\* a get() after where(n > 1) and limit(1) on items with n = 1, 3 has returned
\* the item with n = 3: the limit was taken after the filter
C2_Witness ==
    \E c \in 1..Len(calls) :
        /\ calls[c].status = "done" /\ calls[c].quiet /\ calls[c].kind = "get"
        /\ collectionItems = <<Item2, Item1>>
        /\ calls[c].cfg.filters = <<"nGt1">>
        /\ calls[c].cfg.limitCount = Some(1)
        /\ calls[c].ret = <<Item1>>

\* what the call returns when it is the only terminal call ever made on the
\* builder: the limit is the one the chaining calls left
Solo(call) ==
    LET cfg == call.cfg
        lim == IF call.kind = "first" THEN Some(1) ELSE cfg.chainedLimit
        sel == SelectStages(collectionItems, cfg.filters, cfg.sortField, cfg.sortOrder, lim)
        enriched == [i \in 1..Len(sel) |->
                        RunToEnd(applyEnhancers(sel[i], cfg.enhancers), cfg.enhancers)]
    IN Returned(call.kind, SelectFields(enriched, cfg.selectedFields))

\* C3: with no chaining call in between, each of the terminal calls made on a
\* builder, in any interleaving, returns what it would return if it were the
\* only terminal call ever made on that builder.
C3_TerminalCallsIndependent ==
    \A c \in 1..Len(calls) :
        (calls[c].status = "done" /\ calls[c].quiet) => calls[c].ret = Solo(calls[c])

Ids(items) == [i \in 1..Len(items) |-> items[i].id]

\* C4: the values get() receives from the enrichment are in the order the
\* items had before it, whatever the order in which the items' enrichments
\* completed: position i of the output is the enrichment of position i of the
\* input.
C4_EnrichmentKeepsOrder ==
    \A c \in 1..Len(calls) :
        (calls[c].status = "done" /\ IsCollectionCall(calls[c])
                /\ Len(calls[c].cfg.enhancers) > 0)
            => /\ Ids(calls[c].ret) = Ids(calls[c].selected)
               /\ \A i \in 1..Len(calls[c].selected) :
                      calls[c].results[i] =
                          RefProject(calls[c].chains[i].enrichedItem, selectedFields)

\* a call has returned whose second item completed before its first
C4_Witness ==
    \E c \in 1..Len(calls) :
        /\ calls[c].status = "done" /\ calls[c].kind = "get"
        /\ Len(calls[c].completed) >= 2
        /\ calls[c].completed[1] > calls[c].completed[2]
        /\ Ids(calls[c].ret) = Ids(calls[c].selected)

\* the history of one applyEnhancers call on item: calls and results
\* alternate, each result is that of the call before it, the steps are taken
\* in increasing position, the first call receives the item and every other
\* call receives the result before it
WellChained(log, item) ==
    \A j \in 1..Len(log) :
        /\ (j % 2 = 1) => log[j][1] = "call"
        /\ (j % 2 = 0) => /\ log[j][1] = "ret"
                          /\ log[j][2] = log[j - 1][2]
                          /\ log[j][3] = StepResult(enhancers[log[j][2]], log[j - 1][3])
        /\ (j = 1) => log[j][3] = item
        /\ (j % 2 = 1 /\ j > 1) => /\ log[j][2] > log[j - 2][2]
                                  /\ log[j][3] = log[j - 1][3]

\* C5: for each item the steps run strictly one after the other in the order
\* of enhanceWith, and each step receives exactly the value the step before
\* it returned (the first one the item), also while the enrichments of other
\* items are under way.
C5_StepsSequential ==
    \A c \in 1..Len(calls) : \A i \in 1..Len(calls[c].chains) :
        LET ch == calls[c].chains[i]
        IN /\ WellChained(ch.log, calls[c].selected[i])
           /\ ch.awaiting => Len(ch.log) % 2 = 1
           /\ ch.returned => /\ Len(ch.log) % 2 = 0
                             /\ ch.enrichedItem =
                                    IF ch.log = <<>> THEN calls[c].selected[i]
                                    ELSE ch.log[Len(ch.log)][3]

\* the first item is at its second step, which received a value the first
\* step made, while the second item still awaits its first step
C5_Witness ==
    \E c \in 1..Len(calls) :
        /\ Len(calls[c].chains) >= 2
        /\ Len(calls[c].chains[1].log) = 3
        /\ calls[c].chains[1].log[3][3] # calls[c].selected[1]
        /\ Len(calls[c].chains[2].log) = 1

\* C6: a get() with enrichment steps neither projects nor completes before
\* the enrichment of every selected item has completed; while a step of some
\* item has not completed, the call has not completed.
C6_WaitsForEveryChain ==
    \A c \in 1..Len(calls) :
        (calls[c].kind \in TerminalKinds /\ Len(calls[c].cfg.enhancers) > 0) =>
            /\ Len(calls[c].chains) = Len(calls[c].selected)
            /\ calls[c].status = "done" =>
                   \A i \in 1..Len(calls[c].chains) : calls[c].chains[i].returned
            /\ (\E i \in 1..Len(calls[c].chains) : calls[c].chains[i].awaiting)
                   => /\ calls[c].status # "done"
                      /\ calls[c].ret = <<>>
                      /\ calls[c].results = calls[c].selected

\* the enrichment of one item has completed and that of another awaits a
\* step that never completes: the call is still open
C6_Witness ==
    \E c \in 1..Len(calls) :
        /\ calls[c].status = "enhancing"
        /\ \E i \in 1..Len(calls[c].chains) : calls[c].chains[i].returned
        /\ \E i \in 1..Len(calls[c].chains) :
               /\ calls[c].chains[i].awaiting
               /\ ~Settles(enhancers[calls[c].chains[i].k])

\* the position of an item in the snapshot
SnapshotIndex(item) == CHOOSE p \in 1..Len(collectionItems) : collectionItems[p] = item

\* C7: sortBy(field, 'asc') makes the output increasing in the field,
\* sortBy(field) without a direction makes it decreasing, and items with
\* equal values keep the order they have in the snapshot.
C7_SortDirectionAndTies ==
    \A c \in 1..Len(calls) :
        LET cfg == calls[c].cfg
            out == calls[c].selected
        IN IsSome(cfg.sortField) =>
            \A i \in 1..(Len(out) - 1) :
                LET a == out[i][Val(cfg.sortField)]
                    b == out[i + 1][Val(cfg.sortField)]
                IN /\ cfg.sortArg = Some("asc") => a <= b
                   /\ cfg.sortArg = None => a >= b
                   /\ a = b => SnapshotIndex(out[i]) < SnapshotIndex(out[i + 1])

\* sortBy('n') without a direction on items with n = 2, 1, 2: decreasing, and
\* the two items with n = 2 in snapshot order
C7_Witness ==
    \E c \in 1..Len(calls) :
        /\ calls[c].cfg.sortField = Some("n")
        /\ calls[c].cfg.sortArg = None
        /\ collectionItems = <<Item3, Item2, Item4>>
        /\ calls[c].selected = <<Item3, Item4, Item2>>

\* the number of words separated by whitespace
CountWords(text) ==
    Cardinality({p \in 1..Len(text) :
                    text[p] \notin WhiteSpace /\ (p = 1 \/ text[p - 1] \in WhiteSpace)})

\* C10: the wordCount step returns a new item with every field of the item
\* it received and wordCount = the number of whitespace-separated words of
\* its content (0 for an empty or absent content); the item it received is
\* unchanged.
C10_WordCountCountsWords ==
    \A c \in 1..Len(calls) :
        (calls[c].status = "done" /\ calls[c].quiet /\ IsCollectionCall(calls[c])
                /\ calls[c].cfg.enhancers = <<NameStep("wordCount")>>
                /\ calls[c].cfg.selectedFields = None)
            => \A i \in 1..Len(calls[c].selected) :
                   /\ calls[c].selected[i] \in Range(collectionItems)
                   /\ calls[c].ret[i] =
                          WithField(calls[c].selected[i], "wordCount",
                                    CountWords(ContentOf(calls[c].selected[i])))

(***************************************************************************)
(* Properties of the ordering index and of the URL helpers                 *)
(***************************************************************************)
\* the position of a document of the index in index order
IndexPosition(d) ==
    CHOOSE p \in 1..Len(IndexDocs(sections)) : IndexDocs(sections)[p] = d

\* the position of the section that holds d, and of d in it
HoldsDoc(k, j, d) == j \in 1..Len(sections[k].items) /\ sections[k].items[j] = d

\* C8: getNextDoc(d) returns the document directly after d in d's own
\* section when there is one, otherwise the first document of the next
\* section, and it returns absent only when d is the last document of the
\* last section: never while a later document exists in the index.
C8_NextDocFollowsIndexOrder ==
    (IsSome(navRet) /\ Val(navRet).op = "getNextDoc"
            /\ Val(navRet).args[1] \in Range(IndexDocs(sections)))
        => LET d == Val(navRet).args[1]
               value == Val(navRet).value
           IN /\ \A k \in 1..Len(sections) : \A j \in 1..Len(sections[k].items) :
                     HoldsDoc(k, j, d) =>
                         /\ j < Len(sections[k].items)
                                => value = Some(sections[k].items[j + 1])
                         /\ (j = Len(sections[k].items) /\ k < Len(sections)
                                 /\ sections[k + 1].items # <<>>)
                                => value = Some(sections[k + 1].items[1])
              /\ value = None => IndexPosition(d) = Len(IndexDocs(sections))

\* whether a text can be a segment of a path: not empty and without '/'
IsSegment(text) == text # <<>> /\ "/" \notin Range(text)

\* whether a path is /documentation/<segment> or
\* /documentation/<segment>/<segment>
HasDocShape(path) ==
    LET parts == SplitChar(path, "/")
    IN /\ Len(parts) \in {3, 4}
       /\ parts[1] = <<>>
       /\ <<"/">> \o parts[2] = DocumentationRoot
       /\ \A k \in 3..Len(parts) : IsSegment(parts[k])

\* C9 as the specification states it: parseDocUrl(buildDocUrl(s, d)) returns
\* s and d for every section slug s and every doc slug d, with docSlug absent
\* exactly when d was absent, and every path not of the /documentation/...
\* shape parses to both slugs absent.
C9_ExactInverse ==
    IsSome(urlParsed) =>
        /\ IsSome(urlArgs) =>
               /\ Val(urlParsed).sectionSlug = Some(Val(urlArgs).sectionSlug)
               /\ Val(urlParsed).docSlug = Val(urlArgs).docSlug
        /\ ~HasDocShape(Val(urlPath)) =>
               Val(urlParsed) = [sectionSlug |-> None, docSlug |-> None]

\* C9, amended: for every section slug s that is a path segment and every
\* doc slug d that is absent or a path segment other than 'index',
\* parseDocUrl(buildDocUrl(s, d)) returns s and d; for d = 'index' or d
\* empty it returns s and an absent docSlug; and every path not of the
\* /documentation/... shape parses to both slugs absent.
C9_InverseOnSegments ==
    IsSome(urlParsed) =>
        /\ (IsSome(urlArgs) /\ IsSegment(Val(urlArgs).sectionSlug)) =>
               LET section == Some(Val(urlArgs).sectionSlug)
                   d == Val(urlArgs).docSlug
               IN /\ (~IsSome(d) \/ (IsSegment(Val(d)) /\ Val(d) # IndexSlug))
                         => Val(urlParsed) = [sectionSlug |-> section, docSlug |-> d]
                  /\ (IsSome(d) /\ Val(d) \in {IndexSlug, <<>>})
                         => Val(urlParsed) = [sectionSlug |-> section, docSlug |-> None]
        /\ ~HasDocShape(Val(urlPath)) =>
               Val(urlParsed) = [sectionSlug |-> None, docSlug |-> None]

\* buildDocUrl('g', 'setup') has been parsed back into 'g' and 'setup'
C9_Witness ==
    /\ IsSome(urlParsed)
    /\ urlArgs = Some([sectionSlug |-> <<"g">>,
                       docSlug |-> Some(<<"s", "e", "t", "u", "p">>)])
    /\ urlPath = Some(DocumentationRoot \o <<"/", "g", "/", "s", "e", "t", "u", "p">>)
    /\ Val(urlParsed) = [sectionSlug |-> Some(<<"g">>),
                         docSlug |-> Some(<<"s", "e", "t", "u", "p">>)]

(***************************************************************************)
(* Further properties of the query builder                                 *)
(***************************************************************************)
\* the steps the enrichment recognises: the names of the registry and the
\* functions
Recognised(enh) ==
    SelectSeq(enh, LAMBDA step : \/ step.kind = "function"
                                 \/ step.kind = "string" /\ step.id \in BuiltInNames)

\* C11: a step given as a name that is not in the registry, or a step that
\* is neither a name nor a function, is skipped without raising: the item
\* passes unchanged to the next step, every other step still runs in order,
\* and get() still returns one item per selected item.
C11_UnknownStepsSkipped ==
    \A c \in 1..Len(calls) :
        /\ calls[c].status # "rejected"
        /\ \A i \in 1..Len(calls[c].chains) : ~calls[c].chains[i].threw
        /\ (calls[c].status = "done" /\ calls[c].quiet /\ IsCollectionCall(calls[c]))
               => /\ Len(calls[c].ret) = Len(calls[c].selected)
                  /\ \A i \in 1..Len(calls[c].selected) :
                         calls[c].ret[i] =
                             RefProject(RefEnrich(calls[c].selected[i],
                                                  Recognised(calls[c].cfg.enhancers), 1),
                                        calls[c].cfg.selectedFields)

IsGroupCall(call) == call.kind = "groupByFolder" /\ call.status = "done"

\* the part of a slug before its first '/', and the key 'default' for a slug
\* without one
FirstSegment(slug) ==
    IF \E k \in 1..Len(slug) : slug[k] = "/"
    THEN SubSeq(slug, 1, (CHOOSE k \in 1..Len(slug) :
                              /\ slug[k] = "/"
                              /\ \A j \in 1..(k - 1) : slug[j] # "/") - 1)
    ELSE <<"d", "e", "f", "a", "u", "l", "t">>

\* the position in items of the first item whose slug has the key
FirstWithKey(items, key) ==
    CHOOSE p \in 1..Len(items) :
        /\ FirstSegment(items[p].slug) = key
        /\ \A q \in 1..(p - 1) : FirstSegment(items[q].slug) # key

\* C12: groupByFolder().get() partitions the filtered, sorted, limited items
\* by the first '/'-segment of their slug ('default' without a '/'): the keys
\* of the groups are distinct and in the order of their first occurrence, a
\* group holds exactly the selected items of its key in their relative order,
\* every selected item has its key among the groups, and a key made of words
\* joined by '-' is titled by the capitalised words joined by spaces.
C12_GroupsPartitionSelection ==
    \A c \in 1..Len(calls) :
        IsGroupCall(calls[c]) =>
            LET sel == RefSelect(collectionItems, calls[c].cfg)
                groups == calls[c].ret
            IN /\ \A g, e \in 1..Len(groups) : groups[g].id = groups[e].id => g = e
               /\ \A g \in 1..Len(groups) :
                      /\ groups[g].items # <<>>
                      /\ groups[g].items =
                             SelectSeq(sel, LAMBDA item : FirstSegment(item.slug) = groups[g].id)
                      /\ Len(groups[g].title) = Len(groups[g].id)
                      /\ \A k \in 1..Len(groups[g].id) :
                             groups[g].title[k] =
                                 IF groups[g].id[k] = "-" THEN " "
                                 ELSE IF k = 1 \/ groups[g].id[k - 1] = "-"
                                      THEN Upper(groups[g].id[k])
                                      ELSE groups[g].id[k]
               /\ \A i \in 1..Len(sel) :
                      \E g \in 1..Len(groups) : groups[g].id = FirstSegment(sel[i].slug)
               /\ \A g, e \in 1..Len(groups) :
                      g < e => FirstWithKey(sel, groups[g].id) < FirstWithKey(sel, groups[e].id)

\* slugs a/x, b-c/z, a/y in this order have been grouped into a (a/x, a/y)
\* and then b-c (b-c/z), the latter titled "B C"
C12_Witness ==
    \E c \in 1..Len(calls) :
        /\ IsGroupCall(calls[c])
        /\ calls[c].selected = <<Item1, Item3, Item2>>
        /\ calls[c].ret = << [id |-> <<"a">>, title |-> <<"A">>, items |-> <<Item1, Item2>>],
                             [id |-> <<"b", "-", "c">>, title |-> <<"B", " ", "C">>,
                              items |-> <<Item3>>] >>

\* C13: groupByFolder().get() applies filters, sort and limit but neither the
\* enrichment steps nor the field projection: the items of the groups are,
\* taken together, the selected snapshot items themselves, whatever steps and
\* fields the builder holds.
C13_GroupsHoldSnapshotItems ==
    \A c \in 1..Len(calls) :
        IsGroupCall(calls[c]) =>
            LET sel == RefSelect(collectionItems, calls[c].cfg)
                groups == calls[c].ret
                grouped == Flatten([g \in 1..Len(groups) |-> groups[g].items])
            IN /\ Len(grouped) = Len(sel)
               /\ Range(grouped) = Range(sel)
               /\ \A i \in 1..Len(grouped) :
                      /\ grouped[i] \in Range(collectionItems)
                      /\ "wordCount" \notin DOMAIN grouped[i]
                      /\ "content" \in DOMAIN grouped[i]

\* a builder holding where(n > 1), limit, fields(id, n) and the wordCount step
\* has grouped the whole, unprojected item without a word count
C13_Witness ==
    \E c \in 1..Len(calls) :
        /\ IsGroupCall(calls[c])
        /\ calls[c].cfg.enhancers = <<NameStep("wordCount")>>
        /\ IsSome(calls[c].cfg.selectedFields)
        /\ calls[c].ret # <<>>
        /\ calls[c].ret[1].items[1] = calls[c].selected[1]
        /\ calls[c].selected[1] \in Range(collectionItems)

\* C14: first() returns the first element of what get() produces under limit
\* 1, which is the first item of the filtered and sorted snapshot, enriched
\* and projected; when no item is selected it returns the absent value, and
\* it never fails in that case.
C14_FirstIsHeadOfGet ==
    \A c \in 1..Len(calls) :
        calls[c].kind = "first" =>
            LET one == RefGet(collectionItems, [calls[c].cfg EXCEPT !.limitCount = Some(1)])
                ordered == RefSelect(collectionItems, [calls[c].cfg EXCEPT !.limitCount = None])
            IN /\ (calls[c].status = "done" /\ calls[c].quiet) =>
                      /\ calls[c].ret = IF one = <<>> THEN None ELSE Some(one[1])
                      /\ ordered = <<>> => calls[c].ret = None
                      /\ ordered # <<>> =>
                             calls[c].ret =
                                 Some(RefProject(RefEnrich(ordered[1], calls[c].cfg.enhancers, 1),
                                                 calls[c].cfg.selectedFields))
               /\ calls[c].status = "rejected" => ordered # <<>>

\* first() after sortBy(n) and a step has returned an enriched item that is
\* not the first of the snapshot
C14_Witness ==
    \E c \in 1..Len(calls) :
        /\ calls[c].kind = "first"
        /\ calls[c].status = "done"
        /\ calls[c].quiet
        /\ IsSome(calls[c].cfg.sortField)
        /\ calls[c].cfg.enhancers # <<>>
        /\ IsSome(calls[c].ret)
        /\ Val(calls[c].ret).id # collectionItems[1].id
        /\ Val(calls[c].ret) \notin Range(collectionItems)

\* the entries of a log made by one method
LogOf(log, op) == SelectSeq(log, LAMBDA entry : entry.op = op)

\* the settings a sequence of chaining calls amounts to: every predicate and
\* every step in call order, and the arguments of the last sortBy, limit and
\* fields call only
ChainedCfg(log) ==
    LET w == LogOf(log, "where")
        s == LogOf(log, "sortBy")
        l == LogOf(log, "limit")
        f == LogOf(log, "fields")
        e == LogOf(log, "enhanceWith")
    IN [filters |-> [k \in 1..Len(w) |-> w[k].fn],
        sortField |-> IF s = <<>> THEN None ELSE Some(s[Len(s)].field),
        sortOrder |-> IF s = <<>> \/ s[Len(s)].order = None THEN "desc"
                      ELSE Val(s[Len(s)].order),
        limitCount |-> IF l = <<>> THEN None ELSE Some(l[Len(l)].n),
        selectedFields |-> IF f = <<>> THEN None ELSE Some(f[Len(f)].fs),
        enhancers |-> [k \in 1..Len(e) |-> e[k].enhancer]]

C16_SnapshotFixed ==
    [][ /\ collectionItems' = collectionItems
        /\ calls' # calls => sourceItems' = sourceItems
        /\ \A c \in 1..Len(calls') :
               (calls'[c].status = "done" /\ calls'[c].quiet) =>
                   CASE IsCollectionCall(calls'[c]) ->
                            calls'[c].ret = RefGet(collectionItems, calls'[c].cfg)
                     [] calls'[c].kind = "count" ->
                            calls'[c].ret = Len(RefSelect(collectionItems, calls'[c].cfg))
                     [] calls'[c].kind = "first" ->
                            calls'[c].ret = RefLimit(RefGet(collectionItems, calls'[c].cfg),
                                                     Some(1))
                     [] calls'[c].kind = "groupByFolder" ->
                            LET grouped == Flatten([g \in 1..Len(calls'[c].ret) |->
                                                       calls'[c].ret[g].items])
                                sel == RefSelect(collectionItems, calls'[c].cfg)
                            IN Len(grouped) = Len(sel) /\ Range(grouped) = Range(sel)
      ]_vars

\* get() made after the caller has removed an element from its array has
\* returned the two items of the snapshot
C16_Witness ==
    \E c \in 1..Len(calls) :
        /\ calls[c].status = "done"
        /\ calls[c].kind = "get"
        /\ calls[c].cfg.edits > 0
        /\ Len(sourceItems) < Len(collectionItems)
        /\ calls[c].ret = collectionItems
        /\ Len(calls[c].ret) = 2

(***************************************************************************)
(* Further properties of the ordering index                                *)
(***************************************************************************)
\* C17: selectSection(s) sets the selected section to s and the selected
\* document to the first document of s, or to absent when s has none;
\* selectDoc(d) sets the selected document to d and the selected section to a
\* section of the index whose slug is d.sectionSlug when there is one, and
\* leaves the selected section as it was otherwise.
C17_SelectionFollowsCall ==
    [][ /\ \A k \in 1..Len(sections) :
               selectSection(sections[k]) =>
                   /\ selectedSection' = Some(sections[k])
                   /\ selectedDoc' = IF sections[k].items = <<>> THEN None
                                     ELSE Some(sections[k].items[1])
        /\ \A d \in DocArgs :
               selectDoc(d) =>
                   /\ selectedDoc' = Some(d)
                   /\ IF \E k \in 1..Len(sections) : sections[k].slug = d.sectionSlug
                      THEN /\ IsSome(selectedSection')
                           /\ Val(selectedSection') \in Range(sections)
                           /\ Val(selectedSection').slug = d.sectionSlug
                      ELSE selectedSection' = selectedSection
      ]_vars

\* a document of no section of the index is selected and the section selected
\* before is still selected
C17_Witness ==
    /\ selectedDoc = Some(ForeignDoc)
    /\ IsSome(selectedSection)
    /\ \A k \in 1..Len(sections) : sections[k].slug # ForeignDoc.sectionSlug

\* C18: in every section of the index, every intro document precedes every
\* document that is not one; among two documents of the same intro class one
\* with an order precedes one without and two with an order are in ascending
\* order; two of the same class without an order are in title order.
C18_DocsOrdered ==
    \A k \in 1..Len(sections) :
        \A i, j \in 1..Len(sections[k].items) :
            i < j =>
                LET a == sections[k].items[i]
                    b == sections[k].items[j]
                IN /\ ~(~a.isIntro /\ b.isIntro)
                   /\ a.isIntro = b.isIntro =>
                          /\ ~(a.order = None /\ b.order # None)
                          /\ (a.order # None /\ b.order # None) => Val(a.order) <= Val(b.order)
                          /\ (a.order = None /\ b.order = None)
                                 => localeCompare(a.title, b.title) <= 0

\* the documents given as setup, intro, api(order 1) stand as intro, api, setup
C18_Witness ==
    \E k \in 1..Len(sections) : \E r \in 1..Len(rawSections) :
        /\ rawSections[r].id = sections[k].id
        /\ [i \in 1..Len(rawSections[r].items) |-> rawSections[r].items[i].id]
               = <<DocSetup.id, DocIntro.id, DocApi.id>>
        /\ [i \in 1..Len(sections[k].items) |-> sections[k].items[i].id]
               = <<DocIntro.id, DocApi.id, DocSetup.id>>

\* the order of a section: its own order, else the order of its meta
ExplicitOrder(raw) == IF raw.order # None THEN raw.order ELSE raw.metaOrder

\* the raw section a section of the index was made from (titles are
\* distinct in a batch)
RawOf(section) == CHOOSE raw \in Range(rawSections) : raw.title = section.title

\* whether a raw section holds a document marked intro by flag or by tag
HoldsIntro(raw) ==
    \E n \in 1..Len(raw.items) : raw.items[n].intro \/ "intro" \in Range(raw.items[n].tags)

\* C19: in the section list, every section with an explicit order (its own
\* order, else the order of its meta) precedes every section without one, and
\* those with an order are in ascending order; among the sections without an
\* order those with an intro document precede those without one, and
\* sections equal in that are in title order.
C19_SectionsOrdered ==
    /\ Len(sections) = Len(rawSections)
    /\ \A i, j \in 1..Len(sections) :
           i < j =>
               LET a == RawOf(sections[i])
                   b == RawOf(sections[j])
                   oa == ExplicitOrder(a)
                   ob == ExplicitOrder(b)
               IN /\ ~(oa = None /\ ob # None)
                  /\ (oa # None /\ ob # None) => Val(oa) <= Val(ob)
                  /\ (oa = None /\ ob = None) =>
                         /\ ~(~HoldsIntro(a) /\ HoldsIntro(b))
                         /\ HoldsIntro(a) = HoldsIntro(b)
                                => localeCompare(a.title, b.title) <= 0

\* sections given as misc, Guide, api(meta order 1) stand as api, Guide, misc
C19_Witness ==
    /\ [r \in 1..Len(rawSections) |-> rawSections[r].title]
           = << <<"m", "i", "s", "c">>, <<"G", "u", "i", "d", "e">>, <<"a", "p", "i">> >>
    /\ [k \in 1..Len(sections) |-> sections[k].title]
           = << <<"a", "p", "i">>, <<"G", "u", "i", "d", "e">>, <<"m", "i", "s", "c">> >>

(***************************************************************************)
(* Further properties of the markdown compiler                             *)
(***************************************************************************)
\* whether the text holds one of the three entities at position k
EntityAt(text, k) ==
    \E e \in {AmpEntity, LtEntity, GtEntity} :
        k + Len(e) - 1 <= Len(text) /\ SubSeq(text, k, k + Len(e) - 1) = e

EntityLenAt(text, k) ==
    Len(CHOOSE e \in {AmpEntity, LtEntity, GtEntity} :
            k + Len(e) - 1 <= Len(text) /\ SubSeq(text, k, k + Len(e) - 1) = e)

\* the text with '&', '<' and '>' as their entities, every other character as
\* it is, and an entity the text already holds left as it is
RECURSIVE EscapedOnce(_, _)
EscapedOnce(text, k) ==
    IF k > Len(text) THEN <<>>
    ELSE IF EntityAt(text, k)
    THEN SubSeq(text, k, k + EntityLenAt(text, k) - 1)
             \o EscapedOnce(text, k + EntityLenAt(text, k))
    ELSE (CASE text[k] = "&" -> AmpEntity
            [] text[k] = "<" -> LtEntity
            [] text[k] = ">" -> GtEntity
            [] OTHER -> <<text[k]>>) \o EscapedOnce(text, k + 1)

\* the HTML text of a node whose text leaves are escaped in that way
RECURSIVE RefRenderNode(_)
RefRenderNode(node) ==
    IF "text" \in DOMAIN node THEN EscapedOnce(node.text, 1)
    ELSE LET attrs == AttrsOf(node.props)
             inner == Flatten([k \in 1..Len(node.children) |->
                                  RefRenderNode(node.children[k])])
             open == IF attrs # <<>> THEN <<"<", node.tag, " ">> \o attrs
                     ELSE <<"<", node.tag>>
         IN IF node.tag \in {"hr", "br"} THEN open \o <<" ", "/", ">">>
            ELSE open \o <<">">> \o inner \o <<"<", "/", node.tag, ">">>

\* C20: vnodesToHtml escapes only '&', '<' and '>' of a text leaf, each as
\* its entity and every other character unchanged, and a text leaf that
\* already holds an entity such as '&amp;' is not escaped a second time.
C20_EscapedExactlyOnce ==
    IsSome(mdHtml) =>
        Val(mdHtml) = Join([k \in 1..Len(mdNodes) |-> RefRenderNode(mdNodes[k])], <<"\n">>)

\* the number of characters of the text a node of an inline result was made
\* from: a text leaf is its text, a strong node its text between doubled
\* delimiters, an em or code node its text between single ones, a link its
\* text in brackets and its url in parentheses
Consumed(node) ==
    IF "text" \in DOMAIN node THEN Len(node.text)
    ELSE CASE node.tag = "strong" -> Len(node.children[1].text) + 4
           [] node.tag \in {"em", "code"} -> Len(node.children[1].text) + 2
           [] node.tag = "a" -> Len(node.children[1].text) + Len(node.props[1][2]) + 4

\* the position in the text at which node k of the result starts
RECURSIVE StartOf(_, _)
StartOf(result, k) ==
    IF k = 1 THEN 1 ELSE StartOf(result, k - 1) + Consumed(result[k - 1])

\* whether text holds the doubled delimiter of its first two characters again
\* at position q, after at least one character
ClosesBoldAt(text, q) ==
    /\ Len(text) >= 2
    /\ text[1] \in {"*", "_"}
    /\ text[2] = text[1]
    /\ q >= 4
    /\ q + 1 <= Len(text)
    /\ text[q] = text[1]
    /\ text[q + 1] = text[1]

\* C21: at every position of the inline scan bold is tried before emphasis
\* and matched without looking into it: where the rest of the text opens with
\* a doubled delimiter that occurs again later, the node made there is one
\* strong node whose only child is the raw text up to the nearest such
\* occurrence; no strong node has a node as child.
C21_BoldFirstAndShortest ==
    IsSome(inlineResult) =>
        LET result == Val(inlineResult)
        IN /\ Len(result) > 0 =>
                  StartOf(result, Len(result)) + Consumed(result[Len(result)])
                      = Len(inlineText) + 1
           /\ \A k \in 1..Len(result) :
                  LET rest == SubSeq(inlineText, StartOf(result, k), Len(inlineText))
                  IN /\ (\E q \in 1..Len(rest) : ClosesBoldAt(rest, q)) =>
                            LET q == CHOOSE q \in 1..Len(rest) :
                                         /\ ClosesBoldAt(rest, q)
                                         /\ \A r \in 1..(q - 1) : ~ClosesBoldAt(rest, r)
                            IN result[k] = [tag |-> "strong", props |-> <<>>,
                                            children |-> <<[text |-> SubSeq(rest, 3, q - 1)]>>]
                     /\ ("tag" \in DOMAIN result[k] /\ result[k].tag = "strong") =>
                            /\ Len(result[k].children) = 1
                            /\ DOMAIN result[k].children[1] = {"text"}
                            /\ \E q \in 1..Len(rest) : ClosesBoldAt(rest, q)

\* the text **a*b*c** has been parsed into one strong node with the text
\* child a*b*c
C21_Witness ==
    /\ inlineText = <<"*", "*", "a", "*", "b", "*", "c", "*", "*">>
    /\ inlineResult = Some(<< [tag |-> "strong", props |-> <<>>,
                               children |-> <<[text |-> <<"a", "*", "b", "*", "c">>]>>] >>)

(***************************************************************************)
(* Lookups and traversal of the ordering index                             *)
(***************************************************************************)
\* the items of every raw section have pairwise distinct original slugs
DistinctOriginalSlugs ==
    \A r \in 1..Len(rawSections) :
        \A a, b \in 1..Len(rawSections[r].items) :
            a # b => rawSections[r].items[a].slug # rawSections[r].items[b].slug

\* C22: in an index built from raw sections whose items have pairwise
\* distinct original slugs within each section, getDocBySlug(d.sectionSlug,
\* d.slug) returns d itself for every document d of the index and
\* getSectionBySlug(s.slug) returns s itself for every section s.
C22_LookupReturnsItself ==
    (DistinctOriginalSlugs /\ IsSome(navRet)) =>
        LET call == Val(navRet)
        IN /\ call.op = "getDocBySlug" =>
                  \A d \in Range(IndexDocs(sections)) :
                      (call.args[1] = d.sectionSlug /\ call.args[2] = d.slug)
                          => call.value = Some(d)
           /\ call.op = "getSectionBySlug" =>
                  \A k \in 1..Len(sections) :
                      call.args[1] = sections[k].slug => call.value = Some(sections[k])

\* C23: after createZenOrder and any sequence of selectSection and selectDoc
\* calls with sections and documents of the index, the selected document is
\* absent or one of the documents of the selected section.
C23_SelectedDocInSelectedSection ==
    IsSome(selectedDoc) =>
        /\ IsSome(selectedSection)
        /\ Val(selectedDoc) \in Range(Val(selectedSection).items)

\* section slugs are pairwise distinct and document slugs are pairwise
\* distinct within each section
DistinctIndexSlugs ==
    /\ \A a, b \in 1..Len(sections) : a # b => sections[a].slug # sections[b].slug
    /\ \A k \in 1..Len(sections) :
           \A a, b \in 1..Len(sections[k].items) :
               a # b => sections[k].items[a].slug # sections[k].items[b].slug

\* C24: in an index with pairwise distinct section slugs and pairwise
\* distinct document slugs within each section, whenever getNextDoc(d)
\* returns a document n, getPrevDoc(n) returns d, and whenever getPrevDoc(d)
\* returns a document p, getNextDoc(p) returns d, for the documents d of the
\* index.
C24_PrevNextInverse ==
    (DistinctIndexSlugs /\ IsSome(navRet)
            /\ Val(navRet).args[1] \in Range(IndexDocs(sections))
            /\ IsSome(Val(navRet).value)) =>
        LET d == Val(navRet).args[1]
            got == Val(Val(navRet).value)
        IN /\ Val(navRet).op = "getNextDoc" => getPrevDoc(sections, got) = Some(d)
           /\ Val(navRet).op = "getPrevDoc" => getNextDoc(sections, got) = Some(d)

\* getNextDoc has returned, for the last document of a section, the first
\* document of the next section
C24_Witness ==
    /\ DistinctIndexSlugs
    /\ IsSome(navRet)
    /\ Val(navRet).op = "getNextDoc"
    /\ Val(navRet).args[1] \in Range(IndexDocs(sections))
    /\ IsSome(Val(navRet).value)
    /\ Val(Val(navRet).value).sectionSlug # Val(navRet).args[1].sectionSlug

\* the items of all raw sections have pairwise distinct original slugs
DistinctOriginalSlugsOverall ==
    \A r, q \in 1..Len(rawSections) :
        \A a \in 1..Len(rawSections[r].items), b \in 1..Len(rawSections[q].items) :
            (r # q \/ a # b) => rawSections[r].items[a].slug # rawSections[q].items[b].slug

\* whether s is a prefix of t
IsPrefix(s, t) == Len(s) <= Len(t) /\ SubSeq(t, 1, Len(s)) = s

\* C25: in an index built from items with pairwise distinct original slugs,
\* the walk by getNextDoc from the first document of the first section visits
\* the documents of the index in index order, each once, and ends with absent
\* after the last of them.
C25_WalkVisitsEachOnce ==
    DistinctOriginalSlugsOverall =>
        /\ IsPrefix(walkVisited, IndexDocs(sections))
        /\ walkPc = "done" => walkVisited = IndexDocs(sections)

\* the chaining calls made since the call was invoked
ChainedSince(call) == SubSeq(chainLog, Len(call.cfg.chainLog) + 1, Len(chainLog))

\* what the filter, sort and limit stages select under the builder's settings
\* of this moment
SelectedNow == SelectStages(collectionItems, filters, sortField, sortOrder, limitCount)

\* C26: the items a get() (or all()) returns, and their order, are those its
\* filter, sort and limit stages select under the settings the builder had
\* when the call was invoked, also when where, sortBy or limit were called on
\* the builder while the call was suspended in the enrichment.
C26_SelectionFixedAtInvocation ==
    \A c \in 1..Len(calls) :
        (calls[c].status = "done" /\ IsCollectionCall(calls[c])
                /\ Len(calls[c].cfg.enhancers) > 0)
            => Ids(calls[c].ret) =
                   Ids(SelectStages(collectionItems, calls[c].cfg.filters,
                                    calls[c].cfg.sortField, calls[c].cfg.sortOrder,
                                    calls[c].cfg.limitCount))

\* a get() has returned that was suspended while where, sortBy or limit was
\* called, and the settings of now would select other items or another order
C26_Witness ==
    \E c \in 1..Len(calls) :
        /\ calls[c].status = "done" /\ calls[c].kind = "get"
        /\ ~calls[c].quiet
        /\ ChainedSince(calls[c]) # <<>>
        /\ \A k \in 1..Len(ChainedSince(calls[c])) :
               ChainedSince(calls[c])[k].op \in {"where", "sortBy", "limit"}
        /\ Len(calls[c].ret) > 0
        /\ Ids(calls[c].ret) # Ids(SelectedNow)

====
